---- MODULE Spec2Model ----
(***************************************************************************)
(* A model of the authorization engine of the vlog-agent backend:          *)
(* backend/app/services/permissions.py (PermissionService) and the         *)
(* administrative endpoints of backend/app/api/endpoints/permissions.py.   *)
(*                                                                         *)
(* The policy store is five tables (roles, permissions, user_roles,       *)
(* role_permissions, resource_permissions) plus the audit log.             *)
(* check_permission is modelled as a process that takes one step per       *)
(* store access, so that a failing read, a role graph with a cycle and     *)
(* the order in which the store returns rows are all part of the model.    *)
(*                                                                         *)
(* Optional values: an optional string is the string or None; an optional  *)
(* time or an optional map is a set with at most one element ({} is        *)
(* Python's None).                                                         *)
(***************************************************************************)
EXTENDS Integers, Sequences, FiniteSets, TLC

\* ------------------------------------------------------------------ bounds

\* The clock runs from 0 to MaxTime.
MaxTime == 1

\* A check starts only while the audit log holds fewer than MaxAudit entries.
MaxAudit == 1

\* ------------------------------------------------------------- input sets

None == "none"

\* The user whose permissions are checked, and a second user who only
\* appears as the subject of resource grants.
Users == {"u1", "u2"}
CheckedUsers == {"u1"}

\* The administrators whose calls may run concurrently.
Callers == {"a1", "a2"}

\* r1 and r2 are custom roles, r3 is a system role (update_role refuses it).
RoleIds == {"r1", "r2", "r3"}
CustomRoleIds == {"r1", "r2"}

Resources == {"project", "asset"}
Actions == {"read", "update"}
ResourceIds == {"i1", "i2"}

\* Condition maps (Dict[str, Any]); NoConditions is the empty dict.
NoConditions == [k \in {} |-> None]
OrgA == [k \in {"org"} |-> "A"]
OrgB == [k \in {"org"} |-> "B"]
OrgATeamT == [k \in {"org", "team"} |-> IF k = "org" THEN "A" ELSE "T"]

\* The conditions argument of check_permission: absent, empty, or a map.
Contexts == { {}, {NoConditions}, {OrgA}, {OrgB}, {OrgATeamT} }

\* expires_at: absent or a time.
Expiries == { {}, {1} }

\* The permission catalog (created by create_system_permissions; three of
\* its rows).
PermissionCatalog ==
    { [id |-> "p_read",   resource |-> "project", action |-> "read",   is_system |-> TRUE],
      [id |-> "p_update", resource |-> "project", action |-> "update", is_system |-> TRUE],
      [id |-> "a_read",   resource |-> "asset",   action |-> "read",   is_system |-> TRUE] }

PermissionIds == { p.id : p \in PermissionCatalog }

\* A permission created through POST /permissions (is_system=False).
CustomPermissions ==
    { [id |-> "c_read", resource |-> "project", action |-> "read", is_system |-> FALSE] }

\* ------------------------------------------------------------------ state

VARIABLES
    now,                  \* datetime.utcnow()
    roles,                \* Role rows
    permissions,          \* Permission rows
    user_roles,           \* UserRole rows
    role_permissions,     \* RolePermission rows
    resource_permissions, \* ResourcePermission rows
    audit_log,            \* PermissionAuditLog rows, in the order written
    pc,                   \* where check_permission stands
    args,                 \* its arguments
    role_ids,             \* check_permission's role_ids
    walk_idx,             \* _get_role_hierarchy: index of role_id in role_ids
    current_id,           \* _get_role_hierarchy: current_id
    all_role_ids,         \* _get_role_hierarchy: all_role_ids
    has_role_perm,        \* check_permission's has_role_perm
    result,               \* what check_permission returned
    failed,               \* the step of this check at which an exception was raised, or None
    response,             \* the administrative call of the last step that raised, and its
                          \* exception; or the seed run the last step made
    callers,              \* the administrative calls in progress that run concurrently
    listing,              \* the last get_user_permissions call and what it returned
    request,              \* the request a require_permission guard is deciding on
    race                  \* the administrative write made while this check was reading

store == <<roles, permissions, user_roles, role_permissions, resource_permissions>>
walk == <<walk_idx, current_id, all_role_ids>>
proc == <<pc, args, role_ids, walk_idx, current_id, all_role_ids, has_role_perm, result, failed>>
admin == <<response, callers, listing, request, race>>
vars == <<now, roles, permissions, user_roles, role_permissions, resource_permissions,
          audit_log, pc, args, role_ids, walk_idx, current_id, all_role_ids,
          has_role_perm, result, failed, response, callers, listing, request, race>>

NoArgs == [user_id |-> None, resource |-> None, action |-> None,
           resource_id |-> None, conditions |-> {}]

\* The last step was no administrative call, or the call returned.
NoResponse == [op |-> None, error |-> None]

\* What response holds after the call op: the call and the exception it
\* raised, if it raised one.
Refused(op, error) == IF error = None THEN NoResponse ELSE [op |-> op, error |-> error]

\* No get_user_permissions call has been made.
NoListing == [user_id |-> None, resource |-> None, entries |-> {}]

\* No guard is deciding on a request.
NoRequest == [path |-> None, value |-> None, outcome |-> None]

\* No administrative write has been made since this check was called.
NoRace == [op |-> None, before |-> {}, after |-> {}]

\* An administrative caller that has not made its call.
IdleCaller ==
    [pc |-> "idle", op |-> None, key |-> <<>>, expires_at |-> {}, error |-> None, detail |-> None]

\* ---------------------------------------------------------------- helpers

\* The orders in which the store may return the rows of a query.
Orderings(S) ==
    { s \in [1..Cardinality(S) -> S] :
        \A i, j \in 1..Cardinality(S) : i # j => s[i] # s[j] }

SeqRange(s) == { s[i] : i \in 1..Len(s) }

\* A variant of NotExpired: the comparison written >= instead of >.
NotExpiredInclusive(expires_at) == expires_at = {} \/ \E t \in expires_at : t >= now

\* expires_at IS NULL OR expires_at > utcnow()
NotExpired(expires_at) == expires_at = {} \/ \E t \in expires_at : t > now

\* db.get(Role, id): the rows with that primary key (none or one).
GetRole(id) == { r \in roles : r.id = id }

\* row.permission: the Permission row a grant row references (none or one).
PermissionOf(row) == { p \in permissions : p.id = row.permission_id }

\* _check_conditions
CheckConditions(user_conditions, permission_conditions) ==
    \A key \in DOMAIN permission_conditions :
        (IF key \in DOMAIN user_conditions THEN user_conditions[key] ELSE None)
            = permission_conditions[key]

\* Python truth of a dict that may be None.
Truthy(conditions) == \E m \in conditions : DOMAIN m # {}

\* A variant of GetUserRoles: the is_active filter left out.
GetUserRolesIgnoringActive(user_id) ==
    { ur \in user_roles :
        /\ ur.user_id = user_id
        /\ NotExpired(ur.expires_at) }

\* A variant of GetUserRoles: the expires_at filter left out.
GetUserRolesIgnoringExpiry(user_id) ==
    { ur \in user_roles :
        /\ ur.user_id = user_id
        /\ ur.is_active }

\* _get_user_roles: the query.
GetUserRoles(user_id) ==
    { ur \in user_roles :
        /\ ur.user_id = user_id
        /\ ur.is_active
        /\ NotExpired(ur.expires_at) }

\* A variant of UserResourcePerms: the resource_id filter left out.
UserResourcePermsAnyInstance(user_id, resource, resource_id) ==
    { rp \in resource_permissions :
        /\ rp.resource_type = resource
        /\ rp.subject_type = "user"
        /\ rp.subject_id = user_id
        /\ rp.is_granted
        /\ NotExpired(rp.expires_at) }

\* _check_resource_permission: the first query (subject_type == "user").
UserResourcePerms(user_id, resource, resource_id) ==
    { rp \in resource_permissions :
        /\ rp.resource_type = resource
        /\ rp.resource_id = resource_id
        /\ rp.subject_type = "user"
        /\ rp.subject_id = user_id
        /\ rp.is_granted
        /\ NotExpired(rp.expires_at) }

\* _check_resource_permission: the second query (subject_type == "role").
RoleResourcePerms(ids, resource, resource_id) ==
    { rp \in resource_permissions :
        /\ rp.resource_type = resource
        /\ rp.resource_id = resource_id
        /\ rp.subject_type = "role"
        /\ rp.subject_id \in ids
        /\ rp.is_granted
        /\ NotExpired(rp.expires_at) }

\* _check_resource_permission: either loop over the rows of a query, in the
\* order the store returned them.  "true": a row matched; "none": none did;
\* "raise": row.permission is None, and reading its action raises.
RECURSIVE ScanResourcePerms(_, _)
ScanResourcePerms(rows, action) ==
    IF rows = <<>> THEN "none"
    ELSE LET permission == PermissionOf(Head(rows)) IN
         IF permission = {} THEN "raise"
         ELSE IF \E p \in permission : p.action = action THEN "true"
         ELSE ScanResourcePerms(Tail(rows), action)

\* A variant of RolePerms: the role_id filter left out.
RolePermsAnyRole(ids) ==
    { rp \in role_permissions :
        /\ rp.is_granted
        /\ NotExpired(rp.expires_at) }

\* A variant of RolePerms: the is_granted filter left out.
RolePermsWithDenied(ids) ==
    { rp \in role_permissions :
        /\ rp.role_id \in ids
        /\ NotExpired(rp.expires_at) }

\* _check_role_permission: the query.
RolePerms(ids) ==
    { rp \in role_permissions :
        /\ rp.role_id \in ids
        /\ rp.is_granted
        /\ NotExpired(rp.expires_at) }

\* _check_role_permission: whether a row that matches (resource, action)
\* is skipped: `if conditions and rp.conditions: if not _check_conditions`.
ConditionsReject(conditions, rp) ==
    /\ Truthy(conditions)
    /\ DOMAIN rp.conditions # {}
    /\ \E m \in conditions : ~CheckConditions(m, rp.conditions)

\* _check_role_permission: the loop over the rows, in the order returned.
RECURSIVE ScanRolePerms(_, _, _, _)
ScanRolePerms(rows, resource, action, conditions) ==
    IF rows = <<>> THEN "false"
    ELSE LET rp == Head(rows)
             permission == PermissionOf(rp) IN
         IF permission = {} THEN "raise"
         ELSE IF /\ \E p \in permission : p.resource = resource /\ p.action = action
                 /\ ~ConditionsReject(conditions, rp)
              THEN "true"
         ELSE ScanRolePerms(Tail(rows), resource, action, conditions)

\* _get_role_hierarchy never returns: marks the set of ids of a walk that
\* comes back to a role it has visited.
Hang == "hang"

\* _get_role_hierarchy: the ids the while loop adds from id on (id is
\* the loop's current_id); seen holds the ids this walk has visited.
RECURSIVE WalkUp(_, _)
WalkUp(id, seen) ==
    LET role == GetRole(id) IN
    IF ~\E r \in role : r.parent_role_id # None THEN {}
    ELSE LET parent == (CHOOSE r \in role : TRUE).parent_role_id IN
         IF parent \in seen THEN {Hang}
         ELSE {parent} \cup WalkUp(parent, seen \cup {parent})

\* _get_role_hierarchy as a function of role_ids.
GetRoleHierarchy(ids) == ids \cup UNION { WalkUp(i, {i}) : i \in ids }

\* ------------------------------------------------------- check_permission

\* A variant of OnException: the exception is raised again.
OnExceptionPropagates == "raised"

\* What the `except Exception` arm of check_permission returns.
OnException == "false"

\* Leave check_permission with value r.
Finish(r) ==
    /\ pc' = "done"
    /\ result' = r

\* An exception reaches the except arm of check_permission.
Raise ==
    /\ failed' = pc
    /\ Finish(OnException)

\* Entering _check_role_permission and, first thing, _get_role_hierarchy:
\* all_role_ids = set(role_ids), and the for loop takes the first role_id.
EnterHierarchy(ids) ==
    /\ pc' = "hierarchy"
    /\ walk_idx' = 1
    /\ current_id' = ids[1]
    /\ all_role_ids' = SeqRange(ids)

\* The call check_permission(db, user_id, resource, action, resource_id,
\* conditions).
CheckPermission(user_id, resource, action, resource_id, conditions) ==
    /\ pc = "idle"
    /\ Len(audit_log) < MaxAudit
    /\ args' = [user_id |-> user_id, resource |-> resource, action |-> action,
                resource_id |-> resource_id, conditions |-> conditions]
    /\ pc' = "user_roles"
    /\ response' = NoResponse
    /\ race' = NoRace
    /\ UNCHANGED <<now, store, callers, listing, request, audit_log, role_ids, walk, has_role_perm,
                   result, failed>>

\* user_roles = await self._get_user_roles(db, user_id); the early return
\* when there is none; role_ids; `if resource_id:`.
UserRolesStep ==
    /\ pc = "user_roles"
    /\ LET rows == GetUserRoles(args.user_id) IN
       IF rows = {}
       THEN /\ Finish("false")
            /\ UNCHANGED <<role_ids, walk>>
       ELSE \E ord \in Orderings(rows) :
              LET ids == [i \in 1..Len(ord) |-> ord[i].role_id] IN
              /\ role_ids' = ids
              /\ UNCHANGED result
              /\ IF args.resource_id # None
                 THEN /\ pc' = "resource_user"
                      /\ UNCHANGED walk
                 ELSE EnterHierarchy(ids)
    /\ UNCHANGED <<now, store, admin, audit_log, args, has_role_perm, failed>>

\* _check_resource_permission: the user-subject query and its loop.
ResourceUserStep ==
    /\ pc = "resource_user"
    /\ \E ord \in Orderings(UserResourcePerms(args.user_id, args.resource, args.resource_id)) :
         LET r == ScanResourcePerms(ord, args.action) IN
         IF r = "raise" THEN Raise
         ELSE IF r = "true"
         THEN /\ Finish("true")
              /\ UNCHANGED failed
         ELSE /\ pc' = "resource_role"
              /\ UNCHANGED <<result, failed>>
    /\ UNCHANGED <<now, store, admin, audit_log, args, role_ids, walk, has_role_perm>>

\* _check_resource_permission: the role-subject query and its loop; a
\* None falls through to _check_role_permission.
ResourceRoleStep ==
    /\ pc = "resource_role"
    /\ \E ord \in Orderings(RoleResourcePerms(SeqRange(role_ids), args.resource, args.resource_id)) :
         LET r == ScanResourcePerms(ord, args.action) IN
         IF r = "raise"
         THEN /\ Raise
              /\ UNCHANGED walk
         ELSE IF r = "true"
         THEN /\ Finish("true")
              /\ UNCHANGED <<walk, failed>>
         ELSE /\ EnterHierarchy(role_ids)
              /\ UNCHANGED <<result, failed>>
    /\ UNCHANGED <<now, store, admin, audit_log, args, role_ids, has_role_perm>>

\* A variant of HierarchyStep: an `if` in place of the `while`, so only
\* the direct parent of each role_id is added.
HierarchyStepOneLevel ==
    /\ pc = "hierarchy"
    /\ LET role == GetRole(role_ids[walk_idx])
           parents == { r.parent_role_id : r \in { x \in role : x.parent_role_id # None } } IN
       /\ all_role_ids' = all_role_ids \cup parents
       /\ IF walk_idx < Len(role_ids)
          THEN /\ walk_idx' = walk_idx + 1
               /\ current_id' = role_ids[walk_idx + 1]
               /\ UNCHANGED pc
          ELSE /\ pc' = "role_perms"
               /\ UNCHANGED <<walk_idx, current_id>>
    /\ UNCHANGED <<now, store, admin, audit_log, args, role_ids, has_role_perm, result, failed>>

\* _get_role_hierarchy: one turn of the while loop (one db.get); when the
\* loop breaks, the for loop takes the next role_id, and after the last
\* one the function returns.
HierarchyStep ==
    /\ pc = "hierarchy"
    /\ LET role == GetRole(current_id) IN
       IF \E r \in role : r.parent_role_id # None
       THEN \E r \in role :
              /\ all_role_ids' = all_role_ids \cup {r.parent_role_id}
              /\ current_id' = r.parent_role_id
              /\ UNCHANGED <<pc, walk_idx>>
       ELSE IF walk_idx < Len(role_ids)
       THEN /\ walk_idx' = walk_idx + 1
            /\ current_id' = role_ids[walk_idx + 1]
            /\ UNCHANGED <<pc, all_role_ids>>
       ELSE /\ pc' = "role_perms"
            /\ UNCHANGED walk
    /\ UNCHANGED <<now, store, admin, audit_log, args, role_ids, has_role_perm, result, failed>>

\* A variant of RolePermsStep: the query is made for the roles of the
\* collected set that a second walk of the hierarchy finds again.
RolePermsStepRereading ==
    /\ pc = "role_perms"
    /\ \E ord \in Orderings(RolePerms(all_role_ids \cap GetRoleHierarchy(SeqRange(role_ids)))) :
         LET r == ScanRolePerms(ord, args.resource, args.action, args.conditions) IN
         IF r = "raise"
         THEN /\ Raise
              /\ UNCHANGED has_role_perm
         ELSE /\ has_role_perm' = (r = "true")
              /\ pc' = "log"
              /\ UNCHANGED <<result, failed>>
    /\ UNCHANGED <<now, store, admin, audit_log, args, role_ids, walk>>

\* _check_role_permission: the query and the loop over its rows.
RolePermsStep ==
    /\ pc = "role_perms"
    /\ \E ord \in Orderings(RolePerms(all_role_ids)) :
         LET r == ScanRolePerms(ord, args.resource, args.action, args.conditions) IN
         IF r = "raise"
         THEN /\ Raise
              /\ UNCHANGED has_role_perm
         ELSE /\ has_role_perm' = (r = "true")
              /\ pc' = "log"
              /\ UNCHANGED <<result, failed>>
    /\ UNCHANGED <<now, store, admin, audit_log, args, role_ids, walk>>

\* The row _log_permission_check writes (of its fields, the ones copied
\* from the arguments that nothing reads back are left out).
AuditEntry(user_id, success) ==
    [action |-> "check", subject_type |-> "user", subject_id |-> user_id,
     performed_by |-> user_id, success |-> success]

\* A variant of LogPermissionCheck: the commit also deletes the role grants
\* that have expired.
LogPermissionCheckPurging ==
    /\ pc = "log"
    /\ audit_log' = Append(audit_log, AuditEntry(args.user_id, has_role_perm))
    /\ role_permissions' = { rp \in role_permissions : rp.expires_at = {} }
    /\ Finish(IF has_role_perm THEN "true" ELSE "false")
    /\ UNCHANGED <<now, roles, permissions, user_roles, resource_permissions, admin,
                   args, role_ids, walk, has_role_perm, failed>>

\* _log_permission_check commits its row, and check_permission returns
\* has_role_perm.
LogPermissionCheck ==
    /\ pc = "log"
    /\ audit_log' = Append(audit_log, AuditEntry(args.user_id, has_role_perm))
    /\ Finish(IF has_role_perm THEN "true" ELSE "false")
    /\ UNCHANGED <<now, store, admin, args, role_ids, walk, has_role_perm, failed>>

\* A variant of LogPermissionCheckFails: the failure of the audit write
\* reaches the except arm of check_permission.
LogPermissionCheckRaises ==
    /\ pc = "log"
    /\ Raise
    /\ UNCHANGED <<now, store, admin, audit_log, args, role_ids, walk, has_role_perm>>

\* _log_permission_check fails: its own except arm logs a warning, and
\* check_permission returns has_role_perm.
LogPermissionCheckFails ==
    /\ pc = "log"
    /\ Finish(IF has_role_perm THEN "true" ELSE "false")
    /\ UNCHANGED <<now, store, admin, audit_log, args, role_ids, walk, has_role_perm, failed>>

\* The places where check_permission awaits a store read of steps 1-4.
ReadSteps == {"user_roles", "resource_user", "resource_role", "hierarchy", "role_perms"}

\* The store read the check is about to make fails (store unavailable).
StoreReadFails ==
    /\ pc \in ReadSteps
    /\ Raise
    /\ UNCHANGED <<now, store, admin, audit_log, args, role_ids, walk, has_role_perm>>

\* The caller takes the value check_permission returned.
Return ==
    /\ pc = "done"
    /\ request.outcome # "pending"
    /\ pc' = "idle"
    /\ args' = NoArgs
    /\ role_ids' = <<>>
    /\ walk_idx' = 0
    /\ current_id' = None
    /\ all_role_ids' = {}
    /\ has_role_perm' = FALSE
    /\ result' = None
    /\ failed' = None
    /\ UNCHANGED <<now, store, admin, audit_log>>

\* The steps of a check_permission call in progress.
CheckStep ==
    \/ UserRolesStep
    \/ ResourceUserStep
    \/ ResourceRoleStep
    \/ HierarchyStep
    \/ RolePermsStep
    \/ LogPermissionCheck
    \/ LogPermissionCheckFails
    \/ StoreReadFails
    \/ Return

\* ---------------------------------------------------- get_user_permissions

\* get_user_permissions: the rows of its query; with a resource filter the
\* query joins Permission.
ListedRows(user_id, resource) ==
    LET ids == { ur.role_id : ur \in GetUserRoles(user_id) } IN
    { rp \in RolePerms(GetRoleHierarchy(ids)) :
        resource = None \/ \E p \in PermissionOf(rp) : p.resource = resource }

\* get_user_permissions: the dict appended for a row.
ListedEntry(rp, p) ==
    [permission_id |-> rp.permission_id, resource |-> p.resource, action |-> p.action,
     role_id |-> rp.role_id, conditions |-> rp.conditions, expires_at |-> rp.expires_at]

\* get_user_permissions: what it returns.  rp.permission.name and
\* rp.role.name raise on a row whose permission or role is gone, and the
\* except arm returns [].
GetUserPermissions(user_id, resource) ==
    LET rows == ListedRows(user_id, resource) IN
    IF GetUserRoles(user_id) = {} THEN {}
    ELSE IF \E rp \in rows : PermissionOf(rp) = {} \/ GetRole(rp.role_id) = {} THEN {}
    ELSE UNION { { ListedEntry(rp, p) : p \in PermissionOf(rp) } : rp \in rows }

\* A call of get_user_permissions(db, user_id, resource) that returns.
ListUserPermissions(user_id, resource) ==
    /\ pc = "idle"
    /\ Hang \notin GetRoleHierarchy({ ur.role_id : ur \in GetUserRoles(user_id) })
    /\ listing' = [user_id |-> user_id, resource |-> resource,
                   entries |-> GetUserPermissions(user_id, resource)]
    /\ response' = NoResponse
    /\ UNCHANGED <<now, store, audit_log, proc, callers, request, race>>

\* A call of get_user_permissions in which a store read fails: the except
\* arm returns [].
ListUserPermissionsFails(user_id, resource) ==
    /\ pc = "idle"
    /\ listing' = [user_id |-> user_id, resource |-> resource, entries |-> {}]
    /\ response' = NoResponse
    /\ UNCHANGED <<now, store, audit_log, proc, callers, request, race>>

\* ------------------------------------------------------ require_permission

\* The decisions check_permission can return on the store as it is, when
\* no store access fails: every order in which each query can return its
\* rows is followed.
ResourceDecisions(user_id, ids, resource, action, resource_id) ==
    IF resource_id = None THEN {"none"}
    ELSE LET user == { ScanResourcePerms(ord, action) :
                         ord \in Orderings(UserResourcePerms(user_id, resource, resource_id)) }
             role == { ScanResourcePerms(ord, action) :
                         ord \in Orderings(RoleResourcePerms(ids, resource, resource_id)) } IN
         (user \ {"none"}) \cup (IF "none" \in user THEN role ELSE {})

RoleDecisions(ids, resource, action, conditions) ==
    IF Hang \in GetRoleHierarchy(ids) THEN {}
    ELSE { ScanRolePerms(ord, resource, action, conditions) :
             ord \in Orderings(RolePerms(GetRoleHierarchy(ids))) }

Decisions(user_id, resource, action, resource_id, conditions) ==
    LET ids == { ur.role_id : ur \in GetUserRoles(user_id) } IN
    IF ids = {} THEN {"false"}
    ELSE LET res == ResourceDecisions(user_id, ids, resource, action, resource_id)
             all == (res \ {"none"}) \cup
                      (IF "none" \in res THEN RoleDecisions(ids, resource, action, conditions) ELSE {}) IN
         { IF r = "raise" THEN OnException ELSE r : r \in all }

\* PermissionChecker.__call__ up to its call of check_permission, for a
\* guard built by require_permission(resource, action, resource_id_path)
\* and a request whose path carries value: resource_id is taken to be
\* resource_id_path itself, and conditions is `conditions or {}`.
GuardCall(user_id, resource, action, resource_id_path, value) ==
    /\ pc = "idle"
    /\ Len(audit_log) < MaxAudit
    /\ request' = [path |-> resource_id_path, value |-> value, outcome |-> "pending"]
    /\ args' = [user_id |-> user_id, resource |-> resource, action |-> action,
                resource_id |-> resource_id_path, conditions |-> {}]
    /\ pc' = "user_roles"
    /\ response' = NoResponse
    /\ race' = NoRace
    /\ UNCHANGED <<now, store, callers, listing, audit_log, role_ids, walk, has_role_perm,
                   result, failed>>

\* A variant of GuardDecides: the guard lets every request through.
GuardDecidesPassing ==
    /\ pc = "done"
    /\ request.outcome = "pending"
    /\ request' = [request EXCEPT !.outcome = "passed"]
    /\ pc' = "guard_done"
    /\ UNCHANGED <<now, store, audit_log, args, role_ids, walk, has_role_perm, result, failed,
                   response, callers, listing, race>>

\* PermissionChecker.__call__ after check_permission has returned:
\* `if not has_permission: raise PermissionDeniedError`, else the user is
\* returned.
GuardDecides ==
    /\ pc = "done"
    /\ request.outcome = "pending"
    /\ request' = [request EXCEPT !.outcome = IF result = "true" THEN "passed" ELSE "denied"]
    /\ pc' = "guard_done"
    /\ UNCHANGED <<now, store, audit_log, args, role_ids, walk, has_role_perm, result, failed,
                   response, callers, listing, race>>

\* The guard has returned or raised, and the request is over.
GuardReturn ==
    /\ pc = "guard_done"
    /\ pc' = "idle"
    /\ args' = NoArgs
    /\ role_ids' = <<>>
    /\ walk_idx' = 0
    /\ current_id' = None
    /\ all_role_ids' = {}
    /\ has_role_perm' = FALSE
    /\ result' = None
    /\ failed' = None
    /\ request' = NoRequest
    /\ UNCHANGED <<now, store, audit_log, response, callers, listing, race>>

\* -------------------------------------------------- administrative calls
\* An administrative call is made between checks (pc = "idle") and is one
\* step: a call that raises leaves the store as it was, and response
\* records the call and the exception that left the handler.

\* A service method without its `except Exception` arm.
ServiceErrorPropagates(raised) == raised

\* The `except Exception` arm of the service methods: whatever was raised
\* inside the try block leaves the method as a ValidationError.
ServiceError(raised) == IF raised = None THEN None ELSE "ValidationError"

\* result.scalar_one_or_none() as a condition: raises MultipleResultsFound
\* on more than one row, else tells whether there is a row.
ScalarOneOrNone(rows) ==
    IF Cardinality(rows) > 1 THEN "raise" ELSE IF rows = {} THEN "none" ELSE "one"

\* update_role: what it raises.
UpdateRoleError(role_id) ==
    IF GetRole(role_id) = {} THEN "NotFoundError"
    ELSE IF \E role \in GetRole(role_id) : role.is_system THEN "ValidationError"
    ELSE None

\* PUT /roles/{role_id} (update_role) with parent_role_id set: the role
\* must exist and not be a system role; the new parent is stored as given.
UpdateRole(role_id, parent_role_id) ==
    /\ pc = "idle"
    /\ LET error == UpdateRoleError(role_id) IN
       /\ response' = Refused("update_role", error)
       /\ roles' = IF error # None THEN roles
                   ELSE { IF role.id = role_id
                          THEN [role EXCEPT !.parent_role_id = parent_role_id]
                          ELSE role : role \in roles }
    /\ UNCHANGED <<now, permissions, user_roles, role_permissions, resource_permissions,
                   audit_log, proc, callers, listing, request, race>>

\* assign_role_to_user: what is raised inside its try block.
AssignRoleToUserRaised(user_id, role_id) ==
    IF user_id \notin Users THEN "NotFoundError"
    ELSE IF GetRole(role_id) = {} THEN "NotFoundError"
    ELSE IF \E ur \in user_roles :
               ur.user_id = user_id /\ ur.role_id = role_id /\ ur.is_active
         THEN "ValidationError"
    ELSE None

\* assign_role_to_user
AssignRoleToUser(user_id, role_id, expires_at) ==
    /\ pc = "idle"
    /\ LET error == ServiceError(AssignRoleToUserRaised(user_id, role_id)) IN
       /\ response' = Refused("assign_role_to_user", error)
       /\ user_roles' = IF error # None THEN user_roles
                        ELSE user_roles \cup
                               {[user_id |-> user_id, role_id |-> role_id,
                                 is_active |-> TRUE, expires_at |-> expires_at]}
    /\ UNCHANGED <<now, roles, permissions, role_permissions, resource_permissions,
                   audit_log, proc, callers, listing, request, race>>

\* revoke_role_from_user: what it raises.
RevokeRoleFromUserError(user_id, role_id) ==
    LET found == ScalarOneOrNone({ ur \in user_roles :
                    ur.user_id = user_id /\ ur.role_id = role_id /\ ur.is_active }) IN
    IF found = "raise" THEN "HTTPException"
    ELSE IF found = "none" THEN "NotFoundError"
    ELSE None

\* DELETE /users/{user_id}/roles/{role_id} (revoke_role_from_user)
RevokeRoleFromUser(user_id, role_id) ==
    /\ pc = "idle"
    /\ LET error == RevokeRoleFromUserError(user_id, role_id) IN
       /\ response' = Refused("revoke_role_from_user", error)
       /\ user_roles' = IF error # None THEN user_roles
                        ELSE { IF ur.user_id = user_id /\ ur.role_id = role_id /\ ur.is_active
                               THEN [ur EXCEPT !.is_active = FALSE]
                               ELSE ur : ur \in user_roles }
    /\ UNCHANGED <<now, roles, permissions, role_permissions, resource_permissions,
                   audit_log, proc, callers, listing, request, race>>

\* assign_permission_to_role without its "检查是否已存在" query.
AssignPermissionToRoleUnchecked(role_id, permission_id) ==
    IF GetRole(role_id) = {} THEN "NotFoundError"
    ELSE IF ~\E p \in permissions : p.id = permission_id THEN "NotFoundError"
    ELSE None

\* assign_permission_to_role: what is raised inside its try block.
AssignPermissionToRoleRaised(role_id, permission_id) ==
    IF GetRole(role_id) = {} THEN "NotFoundError"
    ELSE IF ~\E p \in permissions : p.id = permission_id THEN "NotFoundError"
    ELSE IF \E rp \in role_permissions :
               rp.role_id = role_id /\ rp.permission_id = permission_id
         THEN "ValidationError"
    ELSE None

\* assign_permission_to_role
AssignPermissionToRole(role_id, permission_id, conditions, is_granted, expires_at) ==
    /\ pc = "idle"
    /\ LET error == ServiceError(AssignPermissionToRoleRaised(role_id, permission_id)) IN
       /\ response' = Refused("assign_permission_to_role", error)
       /\ role_permissions' = IF error # None THEN role_permissions
                              ELSE role_permissions \cup
                                     {[role_id |-> role_id, permission_id |-> permission_id,
                                       conditions |-> conditions, is_granted |-> is_granted,
                                       expires_at |-> expires_at]}
    /\ UNCHANGED <<now, roles, permissions, user_roles, resource_permissions,
                   audit_log, proc, callers, listing, request, race>>

\* revoke_permission_from_role: what it raises.
RevokePermissionFromRoleError(role_id, permission_id) ==
    LET found == ScalarOneOrNone({ rp \in role_permissions :
                    rp.role_id = role_id /\ rp.permission_id = permission_id }) IN
    IF found = "raise" THEN "HTTPException"
    ELSE IF found = "none" THEN "NotFoundError"
    ELSE None

\* DELETE /roles/{role_id}/permissions/{permission_id}
\* (revoke_permission_from_role)
RevokePermissionFromRole(role_id, permission_id) ==
    /\ pc = "idle"
    /\ LET error == RevokePermissionFromRoleError(role_id, permission_id) IN
       /\ response' = Refused("revoke_permission_from_role", error)
       /\ role_permissions' = IF error # None THEN role_permissions
                              ELSE { rp \in role_permissions :
                                       ~(rp.role_id = role_id /\ rp.permission_id = permission_id) }
    /\ UNCHANGED <<now, roles, permissions, user_roles, resource_permissions,
                   audit_log, proc, callers, listing, request, race>>

\* update_permission without its "系统权限不允许修改" test.
UpdatePermissionErrorAnyRow(permission_id) ==
    IF ~\E p \in permissions : p.id = permission_id THEN "NotFoundError" ELSE None

\* update_permission: what it raises.
UpdatePermissionError(permission_id) ==
    IF ~\E p \in permissions : p.id = permission_id THEN "NotFoundError"
    ELSE IF \E p \in permissions : p.id = permission_id /\ p.is_system THEN "ValidationError"
    ELSE None

\* PUT /permissions/{permission_id} (update_permission): every field of
\* the request is stored; the request has no is_system field.
UpdatePermission(permission_id, resource, action) ==
    /\ pc = "idle"
    /\ LET error == UpdatePermissionError(permission_id) IN
       /\ response' = Refused("update_permission", error)
       /\ permissions' = IF error # None THEN permissions
                         ELSE { IF p.id = permission_id
                                THEN [p EXCEPT !.resource = resource, !.action = action]
                                ELSE p : p \in permissions }
    /\ UNCHANGED <<now, roles, user_roles, role_permissions, resource_permissions,
                   audit_log, proc, callers, listing, request, race>>

\* What `await db.delete(row); await db.commit()` does to a row that other
\* rows still reference is decided by the table declarations (foreign keys
\* and their ON DELETE rules), so each of these may happen: the row goes
\* and the rows that reference it stay ("orphan"), the store refuses with
\* an IntegrityError ("restrict"), the referencing rows go with it
\* ("cascade").  A row nothing references is deleted ("plain").
DeleteOutcomes(referenced) ==
    IF referenced THEN {"orphan", "restrict", "cascade"} ELSE {"plain"}

\* delete_permission: what it raises before the delete.
DeletePermissionError(permission_id) ==
    LET used == ScalarOneOrNone({ rp \in role_permissions :
                                    rp.permission_id = permission_id }) IN
    IF ~\E p \in permissions : p.id = permission_id THEN "NotFoundError"
    ELSE IF \E p \in permissions : p.id = permission_id /\ p.is_system THEN "ValidationError"
    ELSE IF used = "raise" THEN "HTTPException"
    ELSE IF used = "one" THEN "ValidationError"
    ELSE None

\* DELETE /permissions/{permission_id} (delete_permission); an exception
\* of the delete itself reaches `except Exception` (HTTP 500).
DeletePermission(permission_id, outcome) ==
    /\ pc = "idle"
    /\ outcome \in DeleteOutcomes(\E row \in resource_permissions :
                                     row.permission_id = permission_id)
    /\ LET error == IF DeletePermissionError(permission_id) # None
                    THEN DeletePermissionError(permission_id)
                    ELSE IF outcome = "restrict" THEN "HTTPException" ELSE None IN
       /\ response' = Refused("delete_permission", error)
       /\ permissions' = IF error # None THEN permissions
                         ELSE { p \in permissions : p.id # permission_id }
       /\ resource_permissions' =
             IF error = None /\ outcome = "cascade"
             THEN { row \in resource_permissions : row.permission_id # permission_id }
             ELSE resource_permissions
    /\ UNCHANGED <<now, roles, user_roles, role_permissions, audit_log, proc, callers, listing, request, race>>

\* delete_role: what it raises before the delete.
DeleteRoleError(role_id) ==
    LET used == ScalarOneOrNone({ ur \in user_roles : ur.role_id = role_id }) IN
    IF GetRole(role_id) = {} THEN "NotFoundError"
    ELSE IF \E role \in GetRole(role_id) : role.is_system THEN "ValidationError"
    ELSE IF used = "raise" THEN "HTTPException"
    ELSE IF used = "one" THEN "ValidationError"
    ELSE None

\* DELETE /roles/{role_id} (delete_role); an exception of the delete itself
\* reaches `except Exception` (HTTP 500).
DeleteRole(role_id, outcome) ==
    /\ pc = "idle"
    /\ outcome \in DeleteOutcomes(\E rp \in role_permissions : rp.role_id = role_id)
    /\ LET error == IF DeleteRoleError(role_id) # None
                    THEN DeleteRoleError(role_id)
                    ELSE IF outcome = "restrict" THEN "HTTPException" ELSE None IN
       /\ response' = Refused("delete_role", error)
       /\ roles' = IF error # None THEN roles
                   ELSE { role \in roles : role.id # role_id }
       /\ role_permissions' =
             IF error = None /\ outcome = "cascade"
             THEN { rp \in role_permissions : rp.role_id # role_id }
             ELSE role_permissions
    /\ UNCHANGED <<now, permissions, user_roles, resource_permissions,
                   audit_log, proc, callers, listing, request, race>>

\* ------------------------------------------- concurrent grants
\* Two requests run the service methods in one event loop: a method yields
\* at each await, so one request's queries and another's commit interleave.
\* A caller first runs the method's db.get calls and its "已存在" query
\* (CallerChecks), then db.add and db.commit (CallerCommits).

\* The store's uniqueness detection at commit: the insert of a second grant
\* row for a (role, permission) pair, or of a second active assignment row
\* for a (user, role) pair, is refused with an IntegrityError.
UniqueViolation(op, key) ==
    IF op = "assign_permission_to_role"
    THEN \E rp \in role_permissions : rp.role_id = key[1] /\ rp.permission_id = key[2]
    ELSE \E ur \in user_roles : ur.user_id = key[1] /\ ur.role_id = key[2] /\ ur.is_active

\* What the method's checks raise for caller's arguments.
CallerRaised(op, key) ==
    IF op = "assign_permission_to_role"
    THEN AssignPermissionToRoleRaised(key[1], key[2])
    ELSE AssignRoleToUserRaised(key[1], key[2])

\* The caller's request leaves the method; a ValidationError carries the
\* text of the exception it replaces.
CallerDone(op, key, expires_at, raised) ==
    [pc |-> "done", op |-> op, key |-> key, expires_at |-> expires_at,
     error |-> ServiceError(raised), detail |-> raised]

\* The method up to its insert: db.get of both rows and the existing query.
CallerChecks(c, op, key, expires_at) ==
    /\ pc = "idle"
    /\ callers[c].pc = "idle"
    /\ LET raised == CallerRaised(op, key) IN
       callers' = [callers EXCEPT ![c] =
                     IF raised # None THEN CallerDone(op, key, expires_at, raised)
                     ELSE [pc |-> "insert", op |-> op, key |-> key,
                           expires_at |-> expires_at, error |-> None, detail |-> None]]
    /\ UNCHANGED <<now, store, audit_log, proc, response, listing, request, race>>

\* db.add(row) and db.commit(): the row is stored unless the store refuses
\* it, and then the except arm rolls back and raises.
CallerCommits(c) ==
    /\ callers[c].pc = "insert"
    /\ LET op == callers[c].op
           key == callers[c].key
           raised == IF UniqueViolation(op, key) THEN "IntegrityError" ELSE None IN
       /\ callers' = [callers EXCEPT ![c] =
                        CallerDone(op, key, callers[c].expires_at, raised)]
       /\ role_permissions' =
             IF raised = None /\ op = "assign_permission_to_role"
             THEN role_permissions \cup
                    {[role_id |-> key[1], permission_id |-> key[2],
                      conditions |-> NoConditions, is_granted |-> TRUE,
                      expires_at |-> callers[c].expires_at]}
             ELSE role_permissions
       /\ user_roles' =
             IF raised = None /\ op = "assign_role_to_user"
             THEN user_roles \cup
                    {[user_id |-> key[1], role_id |-> key[2],
                      is_active |-> TRUE, expires_at |-> callers[c].expires_at]}
             ELSE user_roles
    /\ UNCHANGED <<now, roles, permissions, resource_permissions, audit_log, proc, response, listing, request, race>>

\* A ResourcePermission row is added to the session and committed (the
\* service has no method for it; the tests write the row themselves, for
\* a permission they have just created).
AddResourcePermission(row) ==
    /\ pc = "idle"
    /\ row \notin resource_permissions
    /\ PermissionOf(row) # {}
    /\ resource_permissions' = resource_permissions \cup {row}
    /\ response' = NoResponse
    /\ UNCHANGED <<now, roles, permissions, user_roles, role_permissions,
                   audit_log, proc, callers, listing, request, race>>

\* Time passes.
Tick ==
    /\ pc = "idle"
    /\ now < MaxTime
    /\ now' = now + 1
    /\ UNCHANGED <<store, audit_log, proc, admin>>

\* ------------------------------------- writes made while a check is reading

\* A check has been called and has not returned: its reads of the store
\* are under way, and no administrative write has been made since its call.
Reading == pc \notin {"idle", "done", "guard_done"} /\ race = NoRace

\* The write op is committed between two reads of the running check; what
\* the check decides on the store just before and just after the commit is
\* kept for comparison.
Committed(op) ==
    /\ UNCHANGED <<now, audit_log, proc, response, callers, listing, request>>
    /\ race' = [op |-> op,
                before |-> Decisions(args.user_id, args.resource, args.action,
                                     args.resource_id, args.conditions),
                after |-> Decisions(args.user_id, args.resource, args.action,
                                    args.resource_id, args.conditions)']

\* POST /users/{user_id}/roles, committed while the check is reading.
ConcurrentAssignRoleToUser(user_id, role_id, expires_at) ==
    /\ Reading
    /\ ServiceError(AssignRoleToUserRaised(user_id, role_id)) = None
    /\ user_roles' = user_roles \cup
                       {[user_id |-> user_id, role_id |-> role_id,
                         is_active |-> TRUE, expires_at |-> expires_at]}
    /\ UNCHANGED <<roles, permissions, role_permissions, resource_permissions>>
    /\ Committed("assign_role_to_user")

\* DELETE /users/{user_id}/roles/{role_id}, committed while the check is
\* reading.
ConcurrentRevokeRoleFromUser(user_id, role_id) ==
    /\ Reading
    /\ RevokeRoleFromUserError(user_id, role_id) = None
    /\ user_roles' = { IF ur.user_id = user_id /\ ur.role_id = role_id /\ ur.is_active
                       THEN [ur EXCEPT !.is_active = FALSE]
                       ELSE ur : ur \in user_roles }
    /\ UNCHANGED <<roles, permissions, role_permissions, resource_permissions>>
    /\ Committed("revoke_role_from_user")

\* POST /roles/{role_id}/permissions, committed while the check is reading.
ConcurrentAssignPermissionToRole(role_id, permission_id, conditions, is_granted, expires_at) ==
    /\ Reading
    /\ ServiceError(AssignPermissionToRoleRaised(role_id, permission_id)) = None
    /\ role_permissions' = role_permissions \cup
                             {[role_id |-> role_id, permission_id |-> permission_id,
                               conditions |-> conditions, is_granted |-> is_granted,
                               expires_at |-> expires_at]}
    /\ UNCHANGED <<roles, permissions, user_roles, resource_permissions>>
    /\ Committed("assign_permission_to_role")

\* DELETE /roles/{role_id}/permissions/{permission_id}, committed while the
\* check is reading.
ConcurrentRevokePermissionFromRole(role_id, permission_id) ==
    /\ Reading
    /\ RevokePermissionFromRoleError(role_id, permission_id) = None
    /\ role_permissions' = { rp \in role_permissions :
                               ~(rp.role_id = role_id /\ rp.permission_id = permission_id) }
    /\ UNCHANGED <<roles, permissions, user_roles, resource_permissions>>
    /\ Committed("revoke_permission_from_role")

\* PUT /roles/{role_id} with a parent_role_id, committed while the check
\* is reading.
ConcurrentUpdateRole(role_id, parent_role_id) ==
    /\ Reading
    /\ UpdateRoleError(role_id) = None
    /\ roles' = { IF role.id = role_id
                  THEN [role EXCEPT !.parent_role_id = parent_role_id]
                  ELSE role : role \in roles }
    /\ UNCHANGED <<permissions, user_roles, role_permissions, resource_permissions>>
    /\ Committed("update_role")

\* DELETE /roles/{role_id}, committed while the check is reading.
ConcurrentDeleteRole(role_id, outcome) ==
    /\ Reading
    /\ outcome \in DeleteOutcomes(\E rp \in role_permissions : rp.role_id = role_id) \ {"restrict"}
    /\ DeleteRoleError(role_id) = None
    /\ roles' = { role \in roles : role.id # role_id }
    /\ role_permissions' = IF outcome = "cascade"
                           THEN { rp \in role_permissions : rp.role_id # role_id }
                           ELSE role_permissions
    /\ UNCHANGED <<permissions, user_roles, resource_permissions>>
    /\ Committed("delete_role")

\* DELETE /permissions/{permission_id}, committed while the check is
\* reading.
ConcurrentDeletePermission(permission_id, outcome) ==
    /\ Reading
    /\ outcome \in DeleteOutcomes(\E row \in resource_permissions :
                                     row.permission_id = permission_id) \ {"restrict"}
    /\ DeletePermissionError(permission_id) = None
    /\ permissions' = { p \in permissions : p.id # permission_id }
    /\ resource_permissions' =
          IF outcome = "cascade"
          THEN { row \in resource_permissions : row.permission_id # permission_id }
          ELSE resource_permissions
    /\ UNCHANGED <<roles, user_roles, role_permissions>>
    /\ Committed("delete_permission")

\* ------------------------------------------------------------ the seed
\* init_permissions_system: create_system_permissions, create_system_roles
\* and assign_role_permissions, one after the other.  The rows they create
\* carry a name, which is what the seed looks rows up by.

\* system_permissions of create_system_permissions: (name, resource, action).
system_permissions ==
    <<[name |-> "user.create", resource |-> "user", action |-> "create"],
       [name |-> "user.read", resource |-> "user", action |-> "read"],
       [name |-> "user.update", resource |-> "user", action |-> "update"],
       [name |-> "user.delete", resource |-> "user", action |-> "delete"],
       [name |-> "user.manage", resource |-> "user", action |-> "manage"],
       [name |-> "project.create", resource |-> "project", action |-> "create"],
       [name |-> "project.read", resource |-> "project", action |-> "read"],
       [name |-> "project.update", resource |-> "project", action |-> "update"],
       [name |-> "project.delete", resource |-> "project", action |-> "delete"],
       [name |-> "project.manage", resource |-> "project", action |-> "manage"],
       [name |-> "project.approve", resource |-> "project", action |-> "approve"],
       [name |-> "asset.create", resource |-> "asset", action |-> "create"],
       [name |-> "asset.read", resource |-> "asset", action |-> "read"],
       [name |-> "asset.update", resource |-> "asset", action |-> "update"],
       [name |-> "asset.delete", resource |-> "asset", action |-> "delete"],
       [name |-> "ai_model.execute", resource |-> "ai_model", action |-> "execute"],
       [name |-> "ai_model.manage", resource |-> "ai_model", action |-> "manage"],
       [name |-> "system.manage", resource |-> "system", action |-> "manage"],
       [name |-> "system.read", resource |-> "system", action |-> "read"]>>

\* system_roles of create_system_roles: the names.
system_roles ==
    <<"super_admin", "admin", "project_manager", "content_creator", "reviewer", "client">>

\* role_permission_mappings of assign_role_permissions.
role_permission_mappings(name) ==
    IF name = "super_admin" THEN
         <<"user.create", "user.read", "user.update", "user.delete",
           "user.manage", "project.create", "project.read",
           "project.update", "project.delete", "project.manage",
           "project.approve", "asset.create", "asset.read",
           "asset.update", "asset.delete", "ai_model.execute",
           "ai_model.manage", "system.manage", "system.read">>
    ELSE IF name = "admin" THEN
         <<"user.create", "user.read", "user.update", "user.manage",
           "project.create", "project.read", "project.update",
           "project.manage", "project.approve", "asset.create",
           "asset.read", "asset.update", "asset.delete",
           "ai_model.execute", "ai_model.manage", "system.read">>
    ELSE IF name = "project_manager" THEN
         <<"project.create", "project.read", "project.update",
           "project.manage", "asset.create", "asset.read",
           "asset.update", "asset.delete", "ai_model.execute">>
    ELSE IF name = "content_creator" THEN
         <<"project.create", "project.read", "project.update",
           "asset.create", "asset.read", "asset.update",
           "ai_model.execute">>
    ELSE IF name = "reviewer" THEN
         <<"project.read", "project.update", "project.approve",
           "asset.read", "asset.update">>
    ELSE IF name = "client" THEN
         <<"project.read", "asset.read">>
    ELSE <<>>

\* The part of the catalogs the seed is run on here.
SeedPermissionNames == {"project.read", "project.approve", "asset.read", "system.manage"}
SeedRoleNames == {"super_admin", "reviewer", "client"}

\* The entries of a list that the condition keeps, in the list's order.
RECURSIVE SelectSeq2(_, _)
SelectSeq2(s, keep) ==
    IF s = <<>> THEN <<>>
    ELSE IF Head(s) \in keep THEN <<Head(s)>> \o SelectSeq2(Tail(s), keep)
    ELSE SelectSeq2(Tail(s), keep)

SeedPermissions ==
    SelectSeq2(system_permissions, { e \in SeqRange(system_permissions) : e.name \in SeedPermissionNames })

SeedRoles == SelectSeq2(system_roles, SeedRoleNames)

\* The (role name, permission name) pairs in the order the two loops of
\* assign_role_permissions visit them.
RECURSIVE MappingPairs(_)
MappingPairs(role_names) ==
    IF role_names = <<>> THEN <<>>
    ELSE LET names == SelectSeq2(role_permission_mappings(Head(role_names)), SeedPermissionNames) IN
         [j \in 1..Len(names) |-> <<Head(role_names), names[j]>>]
           \o MappingPairs(Tail(role_names))

\* str(uuid4()): an id no row has.
IdPool ==
    <<"id01", "id02", "id03", "id04", "id05", "id06", "id07", "id08",
      "id09", "id10", "id11", "id12", "id13", "id14", "id15", "id16">>

Uuid4(used) ==
    IdPool[CHOOSE i \in 1..Len(IdPool) :
             /\ IdPool[i] \notin used
             /\ \A j \in 1..(i - 1) : IdPool[j] \in used]

RowIds(rls, perms) == { r.id : r \in rls } \cup { p.id : p \in perms }

\* create_system_permissions from entry i on: a name that has a row is
\* skipped; an exception (scalar_one_or_none on two rows of one name) ends
\* the loop in the method's except arm.
RECURSIVE CreateSystemPermissions(_, _, _)
CreateSystemPermissions(perms, rls, i) ==
    IF i > Len(SeedPermissions) THEN perms
    ELSE LET e == SeedPermissions[i]
             existing == ScalarOneOrNone({ p \in perms : p.name = e.name }) IN
         IF existing = "raise" THEN perms
         ELSE IF existing = "one" THEN CreateSystemPermissions(perms, rls, i + 1)
         ELSE CreateSystemPermissions(
                perms \cup {[id |-> Uuid4(RowIds(rls, perms)), name |-> e.name,
                             resource |-> e.resource, action |-> e.action,
                             is_system |-> TRUE]},
                rls, i + 1)

\* A variant of CreateSystemRoles: the "检查是否已存在" query left out.
RECURSIVE CreateSystemRolesUnchecked(_, _, _)
CreateSystemRolesUnchecked(rls, perms, i) ==
    IF i > Len(SeedRoles) THEN rls
    ELSE CreateSystemRolesUnchecked(
           rls \cup {[id |-> Uuid4(RowIds(rls, perms)), name |-> SeedRoles[i],
                      is_system |-> TRUE, parent_role_id |-> None, level |-> 0]},
           perms, i + 1)

\* create_system_roles from entry i on; create_role is called without a
\* parent, so level is 0.
RECURSIVE CreateSystemRoles(_, _, _)
CreateSystemRoles(rls, perms, i) ==
    IF i > Len(SeedRoles) THEN rls
    ELSE LET existing == ScalarOneOrNone({ r \in rls : r.name = SeedRoles[i] }) IN
         IF existing = "raise" THEN rls
         ELSE IF existing = "one" THEN CreateSystemRoles(rls, perms, i + 1)
         ELSE CreateSystemRoles(
                rls \cup {[id |-> Uuid4(RowIds(rls, perms)), name |-> SeedRoles[i],
                           is_system |-> TRUE, parent_role_id |-> None, level |-> 0]},
                perms, i + 1)

\* A variant of AssignRolePermissions: the outer loop is left after the
\* first role of the mapping.
RECURSIVE AssignRolePermissionsFirstRole(_, _, _, _)
AssignRolePermissionsFirstRole(grants, rls, perms, i) ==
    IF i > Len(MappingPairs(SeedRoles)) THEN grants
    ELSE LET pair == MappingPairs(SeedRoles)[i]
             role_rows == { r \in rls : r.name = pair[1] }
             permission_rows == { p \in perms : p.name = pair[2] } IN
         IF pair[1] # MappingPairs(SeedRoles)[1][1] THEN grants
         ELSE IF role_rows = {} \/ permission_rows = {}
         THEN AssignRolePermissionsFirstRole(grants, rls, perms, i + 1)
         ELSE AssignRolePermissionsFirstRole(
                grants \cup { [role_id |-> role.id, permission_id |-> permission.id,
                               conditions |-> NoConditions, is_granted |-> TRUE,
                               expires_at |-> {}] : role \in role_rows, permission \in permission_rows },
                rls, perms, i + 1)

\* assign_role_permissions from pair i on: a role or permission that has
\* no row is skipped, assign_permission_to_role's ValidationError (the
\* grant exists) is skipped, any other exception ends the loops.
RECURSIVE AssignRolePermissions(_, _, _, _)
AssignRolePermissions(grants, rls, perms, i) ==
    IF i > Len(MappingPairs(SeedRoles)) THEN grants
    ELSE LET pair == MappingPairs(SeedRoles)[i]
             role_rows == { r \in rls : r.name = pair[1] }
             permission_rows == { p \in perms : p.name = pair[2] } IN
         IF ScalarOneOrNone(role_rows) = "raise" THEN grants
         ELSE IF role_rows = {} THEN AssignRolePermissions(grants, rls, perms, i + 1)
         ELSE IF ScalarOneOrNone(permission_rows) = "raise" THEN grants
         ELSE IF permission_rows = {} THEN AssignRolePermissions(grants, rls, perms, i + 1)
         ELSE LET role == CHOOSE r \in role_rows : TRUE
                  permission == CHOOSE p \in permission_rows : TRUE IN
              IF \E rp \in grants : rp.role_id = role.id /\ rp.permission_id = permission.id
              THEN AssignRolePermissions(grants, rls, perms, i + 1)
              ELSE AssignRolePermissions(
                     grants \cup {[role_id |-> role.id, permission_id |-> permission.id,
                                   conditions |-> NoConditions, is_granted |-> TRUE,
                                   expires_at |-> {}]},
                     rls, perms, i + 1)

\* POST /roles (create_role): level is the parent's level + 1 when
\* parent_role_id names a row, and 0 otherwise; the parent id is stored as
\* given; is_system is False.  The request cannot name the id that uuid4
\* is about to return.
CreateRole(name, parent_role_id) ==
    /\ pc = "idle"
    /\ SeqRange(IdPool) \ RowIds(roles, permissions) # {}
    /\ parent_role_id # Uuid4(RowIds(roles, permissions))
    /\ LET parent_role == IF parent_role_id = None THEN {} ELSE GetRole(parent_role_id)
           level == IF parent_role = {} THEN 0
                    ELSE (CHOOSE r \in parent_role : TRUE).level + 1 IN
       roles' = roles \cup
                  {[id |-> Uuid4(RowIds(roles, permissions)), name |-> name,
                    is_system |-> FALSE, parent_role_id |-> parent_role_id,
                    level |-> level]}
    /\ response' = NoResponse
    /\ UNCHANGED <<now, permissions, user_roles, role_permissions, resource_permissions,
                   audit_log, proc, callers, listing, request, race>>

\* What response holds after a run of the seed (it returns None): the
\* run, and whether the step before it was a run of the seed too.
SeedRan == [op |-> "init_permissions_system", error |-> None]
SeedRanAgain == [op |-> "init_permissions_system (again)", error |-> None]

\* POST /permissions (create_permission): a row with a new id and the
\* name, resource and action of the request; is_system is False.
CreatePermission(name, resource, action) ==
    /\ pc = "idle"
    /\ SeqRange(IdPool) \ RowIds(roles, permissions) # {}
    /\ permissions' = permissions \cup
                         {[id |-> Uuid4(RowIds(roles, permissions)), name |-> name,
                           resource |-> resource, action |-> action, is_system |-> FALSE]}
    /\ response' = NoResponse
    /\ UNCHANGED <<now, roles, user_roles, role_permissions, resource_permissions,
                   audit_log, proc, callers, listing, request, race>>

\* init_permissions_system, run between checks.
InitPermissionsSystem ==
    /\ pc = "idle"
    /\ Cardinality(SeqRange(IdPool) \ RowIds(roles, permissions))
          >= Len(SeedPermissions) + Len(SeedRoles)
    /\ LET perms == CreateSystemPermissions(permissions, roles, 1)
           rls == CreateSystemRoles(roles, perms, 1) IN
       /\ permissions' = perms
       /\ roles' = rls
       /\ role_permissions' = AssignRolePermissions(role_permissions, rls, perms, 1)
    /\ response' = IF response \in {SeedRan, SeedRanAgain} THEN SeedRanAgain ELSE SeedRan
    /\ UNCHANGED <<now, user_roles, resource_permissions, audit_log, proc, callers, listing, request, race>>

\* ----------------------------------------------------- the specifications
\* The specifications run the same actions over different input sets:
\* Spec (grants of both tables, expiry, revocation, resource instances),
\* HierSpec (every parent link of the custom roles, cycles included),
\* CondSpec (condition maps and contexts), AuditSpec (checks and the audit
\* log), AdminSpec (the administrative calls and what they refuse),
\* ConcSpec (two callers whose grants interleave), SeedSpec and BootSpec
\* (the seed on an empty store, run again and checked against), ListSpec
\* (get_user_permissions), InstSpec (grants on resource instances under a
\* hierarchy), LevelSpec (create_role and the level column), OrderSpec
\* (queries with several matching rows), GuardSpec (require_permission)
\* and RaceSpec (one administrative write committed while a check reads).

\* The roles table: three roles created without a parent (level 0).
InitialRoles ==
    { [id |-> r, parent_role_id |-> None, level |-> 0, is_system |-> (r = "r3")]
        : r \in RoleIds }

\* A ResourcePermission row.
ResourceRow(resource_type, resource_id, permission_id, subject_type, subject_id, is_granted, expires_at) ==
    [resource_type |-> resource_type, resource_id |-> resource_id,
     permission_id |-> permission_id, subject_type |-> subject_type,
     subject_id |-> subject_id, is_granted |-> is_granted, expires_at |-> expires_at]

Init ==
    /\ now = 0
    /\ roles = InitialRoles
    /\ permissions = PermissionCatalog \cup CustomPermissions
    /\ user_roles = {}
    /\ role_permissions = {}
    /\ resource_permissions = {}
    /\ audit_log = <<>>
    /\ pc = "idle"
    /\ args = NoArgs
    /\ role_ids = <<>>
    /\ walk_idx = 0
    /\ current_id = None
    /\ all_role_ids = {}
    /\ has_role_perm = FALSE
    /\ result = None
    /\ failed = None
    /\ response = NoResponse
    /\ callers = [c \in Callers |-> IdleCaller]
    /\ listing = NoListing
    /\ request = NoRequest
    /\ race = NoRace

\* Spec: r1 may be made a child of r2; u1 is given r1 (with or without an
\* expiry) and r2 (which may be revoked); role grants and resource grants
\* that are granted, denied or expiring.
UpdateRoleInputs == { <<"r1", "r2">>, <<"r1", None>> }
AssignRoleInputs == { <<"u1", "r1", {}>>, <<"u1", "r1", {1}>>, <<"u1", "r2", {}>> }
RevokeRoleInputs == { <<"u1", "r2">> }
GrantInputs ==
    { <<"r2", "p_read", NoConditions, TRUE, {}>>,
      <<"r2", "p_read", NoConditions, TRUE, {1}>>,
      <<"r1", "p_read", NoConditions, FALSE, {}>>,
      <<"r1", "a_read", NoConditions, TRUE, {}>> }
ResourceGrantInputs ==
    { ResourceRow("project", "i1", "p_read", "user", "u1", TRUE, {}),
      ResourceRow("project", "i1", "p_update", "user", "u1", FALSE, {}),
      ResourceRow("project", "i2", "p_read", "role", "r1", TRUE, {1}),
      ResourceRow("asset", "i1", "a_read", "user", "u2", TRUE, {}) }

Next ==
    \/ \E in \in UpdateRoleInputs : UpdateRole(in[1], in[2])
    \/ \E in \in AssignRoleInputs : AssignRoleToUser(in[1], in[2], in[3])
    \/ \E in \in RevokeRoleInputs : RevokeRoleFromUser(in[1], in[2])
    \/ \E in \in GrantInputs : AssignPermissionToRole(in[1], in[2], in[3], in[4], in[5])
    \/ \E in \in GrantInputs : RevokePermissionFromRole(in[1], in[2])
    \/ \E row \in ResourceGrantInputs : AddResourcePermission(row)
    \/ Tick
    \/ \E u \in CheckedUsers, res \in Resources, act \in Actions,
          rid \in ResourceIds \cup {None} :
         CheckPermission(u, res, act, rid, {})
    \/ CheckStep

Spec == Init /\ [][Next]_vars

\* HierSpec: every parent link of r1 and r2 to another role (update_role
\* checks none of them, so r1 and r2 can be made each other's parent), any
\* of the three roles assigned to u1, a plain grant of project.read on any
\* role; checks without resource_id and conditions.
HierUpdateRoleInputs ==
    { in \in CustomRoleIds \X (RoleIds \cup {None}) : in[1] # in[2] }
HierAssignRoleInputs == { <<"u1", r, {}>> : r \in RoleIds }
HierGrantInputs == { <<r, "p_read", NoConditions, TRUE, {}>> : r \in RoleIds }

\* The steps of a check other than a failure of the store.
HierCheckStep ==
    \/ UserRolesStep
    \/ HierarchyStep
    \/ RolePermsStep
    \/ LogPermissionCheck
    \/ Return

HierNext ==
    \/ \E in \in HierUpdateRoleInputs : UpdateRole(in[1], in[2])
    \/ \E in \in HierAssignRoleInputs : AssignRoleToUser(in[1], in[2], in[3])
    \/ \E in \in HierGrantInputs : AssignPermissionToRole(in[1], in[2], in[3], in[4], in[5])
    \/ \E in \in HierGrantInputs : RevokePermissionFromRole(in[1], in[2])
    \/ \E u \in CheckedUsers, act \in Actions : CheckPermission(u, "project", act, None, {})
    \/ HierCheckStep
    \/ LogPermissionCheckFails
    \/ StoreReadFails

HierSpec == Init /\ [][HierNext]_vars

\* A check that has been called keeps running (the event loop resumes the
\* coroutine after each await); nothing forces the store to fail.
FairHierSpec == HierSpec /\ WF_vars(HierCheckStep)

\* CondSpec: role grants with condition maps, checks with each context.
CondUpdateRoleInputs == { <<"r1", "r2">>, <<"r1", None>> }
CondAssignRoleInputs == { <<"u1", "r1", {}>>, <<"u1", "r2", {}>> }
CondGrantInputs ==
    { <<"r1", "p_read", OrgA, TRUE, {}>>,
      <<"r1", "p_read", OrgATeamT, TRUE, {}>>,
      <<"r1", "p_read", NoConditions, TRUE, {}>>,
      <<"r2", "p_read", OrgB, TRUE, {}>>,
      <<"r2", "p_update", OrgA, TRUE, {}>> }

CondNext ==
    \/ \E in \in CondUpdateRoleInputs : UpdateRole(in[1], in[2])
    \/ \E in \in CondAssignRoleInputs : AssignRoleToUser(in[1], in[2], in[3])
    \/ \E in \in CondGrantInputs : AssignPermissionToRole(in[1], in[2], in[3], in[4], in[5])
    \/ \E in \in CondGrantInputs : RevokePermissionFromRole(in[1], in[2])
    \/ \E u \in CheckedUsers, act \in Actions, c \in Contexts :
         CheckPermission(u, "project", act, None, c)
    \/ HierCheckStep
    \/ LogPermissionCheckFails
    \/ StoreReadFails

CondSpec == Init /\ [][CondNext]_vars

\* AuditSpec: one role, one role grant and one resource grant, so that a
\* check takes each of its branches (no role, resource grant, role
\* grant, failure of a read, failure of the audit write).
AuditAssignRoleInputs == { <<"u1", "r1", {}>> }
AuditRevokeRoleInputs == { <<"u1", "r1">> }
AuditGrantInputs ==
    { <<"r1", "p_read", NoConditions, TRUE, {}>>,
      <<"r1", "p_read", NoConditions, TRUE, {1}>> }
AuditResourceGrantInputs ==
    { ResourceRow("project", "i1", "p_update", "user", "u1", TRUE, {}) }

AuditNext ==
    \/ \E in \in AuditAssignRoleInputs : AssignRoleToUser(in[1], in[2], in[3])
    \/ \E in \in AuditRevokeRoleInputs : RevokeRoleFromUser(in[1], in[2])
    \/ \E in \in AuditGrantInputs : AssignPermissionToRole(in[1], in[2], in[3], in[4], in[5])
    \/ \E in \in AuditGrantInputs : RevokePermissionFromRole(in[1], in[2])
    \/ \E row \in AuditResourceGrantInputs : AddResourcePermission(row)
    \/ Tick
    \/ \E u \in CheckedUsers, act \in Actions, rid \in {None, "i1"} :
         CheckPermission(u, "project", act, rid, {})
    \/ CheckStep

AuditSpec == Init /\ [][AuditNext]_vars

\* AdminSpec: the administrative calls alone, with ids that name no row
\* (u9, r9, p9), a system role (r3) and a system permission (p_read), a
\* second request for a pair that differs in its attributes, and deletes.
AdminUpdateRoleInputs == { <<"r1", "r2">>, <<"r3", "r1">>, <<"r9", None>> }
AdminAssignRoleInputs ==
    { <<"u1", "r1", {}>>, <<"u1", "r1", {1}>>, <<"u9", "r1", {}>>, <<"u1", "r9", {}>> }
AdminRevokeRoleInputs == { <<"u1", "r1">> }
AdminGrantInputs ==
    { <<"r1", "c_read", NoConditions, TRUE, {}>>,
      <<"r1", "c_read", NoConditions, FALSE, {1}>>,
      <<"r2", "c_read", NoConditions, TRUE, {}>>,
      <<"r9", "c_read", NoConditions, TRUE, {}>>,
      <<"r1", "p9", NoConditions, TRUE, {}>> }
AdminResourceGrantInputs ==
    { ResourceRow("project", "i1", "c_read", "user", "u1", TRUE, {}) }
AdminUpdatePermissionInputs == { <<"c_read", "asset", "read">>, <<"p_read", "asset", "read">> }
AdminDeleteRoleInputs == { "r1", "r2", "r3", "r9" }
AdminDeletePermissionInputs == { "c_read", "p_read", "p9" }

AdminNext ==
    \/ \E in \in AdminUpdateRoleInputs : UpdateRole(in[1], in[2])
    \/ \E in \in AdminAssignRoleInputs : AssignRoleToUser(in[1], in[2], in[3])
    \/ \E in \in AdminRevokeRoleInputs : RevokeRoleFromUser(in[1], in[2])
    \/ \E in \in AdminGrantInputs : AssignPermissionToRole(in[1], in[2], in[3], in[4], in[5])
    \/ \E in \in AdminGrantInputs : RevokePermissionFromRole(in[1], in[2])
    \/ \E row \in AdminResourceGrantInputs : AddResourcePermission(row)
    \/ \E in \in AdminUpdatePermissionInputs : UpdatePermission(in[1], in[2], in[3])
    \/ \E id \in AdminDeleteRoleInputs, outcome \in {"plain", "orphan", "restrict", "cascade"} :
         DeleteRole(id, outcome)
    \/ \E id \in AdminDeletePermissionInputs, outcome \in {"plain", "orphan", "restrict", "cascade"} :
         DeletePermission(id, outcome)

AdminSpec == Init /\ [][AdminNext]_vars

\* ConcSpec: two callers, each making one grant or assignment, on a store
\* that holds no edge yet.
ConcCalls ==
    ({"assign_permission_to_role"} \X {<<"r1", "c_read">>, <<"r2", "c_read">>} \X Expiries)
    \cup ({"assign_role_to_user"} \X {<<"u1", "r1">>, <<"u2", "r1">>} \X Expiries)

ConcNext ==
    \/ \E c \in Callers, call \in ConcCalls : CallerChecks(c, call[1], call[2], call[3])
    \/ \E c \in Callers : CallerCommits(c)

ConcSpec == Init /\ [][ConcNext]_vars

\* The store before the seed has run: no row in any table.
EmptyInit ==
    /\ now = 0
    /\ roles = {}
    /\ permissions = {}
    /\ user_roles = {}
    /\ role_permissions = {}
    /\ resource_permissions = {}
    /\ audit_log = <<>>
    /\ pc = "idle"
    /\ args = NoArgs
    /\ role_ids = <<>>
    /\ walk_idx = 0
    /\ current_id = None
    /\ all_role_ids = {}
    /\ has_role_perm = FALSE
    /\ result = None
    /\ failed = None
    /\ response = NoResponse
    /\ callers = [c \in Callers |-> IdleCaller]
    /\ listing = NoListing
    /\ request = NoRequest
    /\ race = NoRace

\* SeedSpec: the seed is run, and run again, on a store in which an
\* administrator may have created permissions that carry a seeded name and
\* may have revoked seeded grants.
MaxCustom == 2

SeedNext ==
    \/ InitPermissionsSystem
    \/ \E in \in { <<"project.read", "asset", "read">> } :
         /\ Cardinality({ p \in permissions : ~p.is_system }) < MaxCustom
         /\ CreatePermission(in[1], in[2], in[3])
    \/ \E in \in { <<"client", "project.read">>, <<"reviewer", "project.approve">> }, role \in roles, p \in permissions :
         /\ role.name = in[1] /\ p.name = in[2]
         /\ RevokePermissionFromRole(role.id, p.id)
    \/ \E role \in roles : user_roles = {} /\ AssignRoleToUser("u1", role.id, {})

SeedSpec == EmptyInit /\ [][SeedNext]_vars

\* BootSpec: the seed is run on the empty store, u1 is given one of the
\* seeded roles, and u1's permissions are checked.
BootResources == {"project", "asset", "system"}
BootActions == {"read", "approve", "manage"}

BootNext ==
    \/ InitPermissionsSystem
    \/ \E role \in roles : user_roles = {} /\ AssignRoleToUser("u1", role.id, {})
    \/ \E resource \in BootResources, action \in BootActions :
         CheckPermission("u1", resource, action, None, {})
    \/ UserRolesStep
    \/ HierarchyStep
    \/ RolePermsStep
    \/ LogPermissionCheck
    \/ LogPermissionCheckFails
    \/ StoreReadFails
    \/ Return

BootSpec == EmptyInit /\ [][BootNext]_vars

\* ListSpec: r1 may be made a child of r2, u1 holds r1 (with or without an
\* expiry, or revoked), the two roles are granted permissions (one grant
\* expiring, one denied), r2 may be deleted, u1's permissions are listed
\* with and without a resource filter, and checked.
ListFilters == { None, "project" }

ListNext ==
    \/ \E in \in { <<"r1", "r2">> } : UpdateRole(in[1], in[2])
    \/ \E in \in { <<"u1", "r1", {}>>, <<"u1", "r1", {1}>> } : AssignRoleToUser(in[1], in[2], in[3])
    \/ \E in \in { <<"u1", "r1">> } : RevokeRoleFromUser(in[1], in[2])
    \/ \E in \in { <<"r1", "p_read", NoConditions, TRUE, {}>>, <<"r2", "a_read", NoConditions,
           TRUE, {1}>>, <<"r2", "p_update", NoConditions, FALSE, {}>> } :
         AssignPermissionToRole(in[1], in[2], in[3], in[4], in[5])
    \/ \E id \in { "r2" }, outcome \in {"plain", "orphan", "restrict", "cascade"} :
         DeleteRole(id, outcome)
    \/ Tick
    \/ \E u \in CheckedUsers, resource \in ListFilters : ListUserPermissions(u, resource)
    \/ \E u \in CheckedUsers, resource \in ListFilters : ListUserPermissionsFails(u, resource)
    \/ \E u \in CheckedUsers, res \in Resources, act \in Actions :
         CheckPermission(u, res, act, None, {})
    \/ UserRolesStep
    \/ HierarchyStep
    \/ RolePermsStep
    \/ LogPermissionCheck
    \/ LogPermissionCheckFails
    \/ StoreReadFails
    \/ Return

ListSpec == Init /\ [][ListNext]_vars

\* InstSpec: r1 may be made a child of r2, u1 holds r1, and instance i1
\* has resource grants whose subject is r1, r2 or u1; one of the rows is
\* for an asset instance and references the permission project.read.
InstNext ==
    \/ \E in \in { <<"r1", "r2">>, <<"r1", None>> } : UpdateRole(in[1], in[2])
    \/ \E in \in { <<"u1", "r1", {}>> } : AssignRoleToUser(in[1], in[2], in[3])
    \/ \E row \in { ResourceRow("project", "i1", "p_read", "role", "r2", TRUE, {}),
           ResourceRow("project", "i1", "p_update", "role", "r1", TRUE, {}),
           ResourceRow("asset", "i1", "p_read", "user", "u1", TRUE, {}) } :
         AddResourcePermission(row)
    \/ \E u \in CheckedUsers, res \in Resources, act \in Actions :
         CheckPermission(u, res, act, "i1", {})
    \/ CheckStep

InstSpec == Init /\ [][InstNext]_vars

\* LevelSpec: on the empty store up to MaxRoles roles are created, with no
\* parent, with a parent that exists or with a parent id that names no
\* row; a role is given another parent or none; a role is deleted.
MaxRoles == 3
LevelNext ==
    \/ \E parent_role_id \in { None, "id01", "id02", "id09" } :
         /\ Cardinality(roles) < MaxRoles
         /\ CreateRole("editor", parent_role_id)
    \/ \E in \in { <<"id02", "id01">>, <<"id02", None>>, <<"id01", "id03">> } :
         UpdateRole(in[1], in[2])
    \/ \E id \in { "id01" }, outcome \in {"plain", "orphan", "restrict", "cascade"} :
         DeleteRole(id, outcome)

LevelSpec == EmptyInit /\ [][LevelNext]_vars

\* OrderSpec: u1 holds r1; r1 has two grants of project.read (through the
\* system permission and through a custom one) of which one carries
\* conditions; instance i1 has two grants for u1; the custom permission may
\* be deleted; checks with and without a context and an instance, whose
\* queries return their rows in any order.
OrderNext ==
    \/ \E in \in { <<"u1", "r1", {}>> } : AssignRoleToUser(in[1], in[2], in[3])
    \/ \E in \in { <<"r1", "p_read", OrgB, TRUE, {}>>, <<"r1", "c_read", NoConditions, TRUE,
           {}>> } :
         AssignPermissionToRole(in[1], in[2], in[3], in[4], in[5])
    \/ \E in \in { <<"r1", "p_read", OrgB, TRUE, {}>>, <<"r1", "c_read", NoConditions, TRUE,
           {}>> } :
         RevokePermissionFromRole(in[1], in[2])
    \/ \E row \in { ResourceRow("project", "i1", "p_read", "user", "u1", TRUE, {}),
           ResourceRow("project", "i1", "c_read", "user", "u1", TRUE, {}) } :
         AddResourcePermission(row)
    \/ \E id \in { "c_read" }, outcome \in {"plain", "orphan", "restrict", "cascade"} :
         DeletePermission(id, outcome)
    \/ \E u \in CheckedUsers, rid \in {None, "i1"}, conditions \in { {}, {OrgA} } :
         CheckPermission(u, "project", "read", rid, conditions)
    \/ CheckStep

OrderSpec == Init /\ [][OrderNext]_vars

\* GuardSpec: u1 may get role r1, r1 a grant of project.read, and u1 a
\* grant on one project instance; requests for either instance come in
\* through guards built with and without resource_id_path.
GuardNext ==
    \/ \E in \in { <<"u1", "r1", {}>> } : AssignRoleToUser(in[1], in[2], in[3])
    \/ \E in \in { <<"u1", "r1", {}>> } : RevokeRoleFromUser(in[1], in[2])
    \/ \E in \in { <<"r1", "p_read", NoConditions, TRUE, {}>> } :
         AssignPermissionToRole(in[1], in[2], in[3], in[4], in[5])
    \/ \E in \in { <<"r1", "p_read", NoConditions, TRUE, {}>> } :
         RevokePermissionFromRole(in[1], in[2])
    \/ \E row \in { ResourceRow("project", rid, "p_read", "user", "u1", TRUE,
           {}) : rid \in {"i1"} \cup { "project_id" } } :
         AddResourcePermission(row)
    \/ \E u \in CheckedUsers, act \in Actions, p \in {None} \cup { "project_id" }, v \in ResourceIds :
         GuardCall(u, "project", act, p, v)
    \/ \E u \in CheckedUsers, v \in ResourceIds : CheckPermission(u, "project", "read", v, {})
    \/ CheckStep
    \/ GuardDecides
    \/ GuardReturn

GuardSpec == Init /\ [][GuardNext]_vars

\* RaceSpec: u1 may hold r1 and r2, r1 may be given r2 or r3 for its
\* parent and r2 may be given r3; r2 and r3 may be granted project.read and
\* u1 and r1 may have a grant on instance i1, r1 through a permission
\* that may be deleted.  Once a check is called, one of the
\* administrative writes may be committed between two of its reads.  No
\* store access fails.
RaceNext ==
    \/ \E in \in { <<"u1", "r1", {}>>, <<"u1", "r2", {}>> } : AssignRoleToUser(in[1], in[2], in[3])
    \/ \E in \in { <<"r1", "r2">>, <<"r1", "r3">>, <<"r2", "r3">> } : UpdateRole(in[1], in[2])
    \/ \E in \in { <<"r2", "p_read", NoConditions, TRUE, {}>>, <<"r3", "p_read", NoConditions,
           TRUE, {}>> } :
         AssignPermissionToRole(in[1], in[2], in[3], in[4], in[5])
    \/ \E row \in { ResourceRow("project", "i1", "p_read", "user", "u1", TRUE, {}),
           ResourceRow("project", "i1", "c_read", "role", "r1", TRUE, {}) } :
         AddResourcePermission(row)
    \/ \E u \in CheckedUsers, rid \in {None, "i1"} : CheckPermission(u, "project", "read", rid, {})
    \/ UserRolesStep
    \/ ResourceUserStep
    \/ ResourceRoleStep
    \/ HierarchyStep
    \/ RolePermsStep
    \/ LogPermissionCheck
    \/ Return
    \/ \E in \in { <<"u1", "r1", {}>>, <<"u1", "r2", {}>> } :
         ConcurrentAssignRoleToUser(in[1], in[2], in[3])
    \/ \E in \in { <<"u1", "r1", {}>>, <<"u1", "r2", {}>> } :
         ConcurrentRevokeRoleFromUser(in[1], in[2])
    \/ \E in \in { <<"r2", "p_read", NoConditions, TRUE, {}>>, <<"r3", "p_read", NoConditions, TRUE, {}>> } :
         ConcurrentAssignPermissionToRole(in[1], in[2], in[3], in[4], in[5])
    \/ \E in \in { <<"r2", "p_read", NoConditions, TRUE, {}>>, <<"r3", "p_read", NoConditions,
           TRUE, {}>> } :
         ConcurrentRevokePermissionFromRole(in[1], in[2])
    \/ \E in \in { <<"r1", "r2">>, <<"r1", "r3">>, <<"r2", "r3">> } \cup { <<"r1", None>> } :
         ConcurrentUpdateRole(in[1], in[2])
    \/ \E id \in { "r2" }, outcome \in {"plain", "orphan", "cascade"} :
         ConcurrentDeleteRole(id, outcome)
    \/ \E id \in { "c_read" }, outcome \in {"plain", "orphan", "cascade"} :
         ConcurrentDeletePermission(id, outcome)

RaceSpec == Init /\ [][RaceNext]_vars

\* ------------------------------------------- reference definitions
\* What the policy store says, written over the tables alone; none of the
\* definitions below is a step of the code.

\* An expires_at that is absent or still in the future.
Live(expires_at) == \A t \in expires_at : now < t

\* The roles a user holds: active assignments that have not expired.
HeldRoles(u) ==
    { ur.role_id : ur \in { x \in user_roles :
                              x.user_id = u /\ x.is_active /\ Live(x.expires_at) } }

\* The parents of the roles of S.
Parents(S) ==
    { r.parent_role_id : r \in { x \in roles : x.id \in S /\ x.parent_role_id # None } }

\* S and every ancestor of a role of S.
RECURSIVE UpClosure(_)
UpClosure(S) ==
    LET T == S \cup Parents(S) IN IF T = S THEN S ELSE UpClosure(T)

\* The ancestors of role r, at any depth.
Ancestors(r) == UpClosure(Parents({r}))

\* The permission with id pid is (res, act) / has action act.
PermIs(pid, res, act) ==
    \E p \in permissions : p.id = pid /\ p.resource = res /\ p.action = act
PermHasAction(pid, act) ==
    \E p \in permissions : p.id = pid /\ p.action = act

\* The condition matcher as specified: a grant without conditions always
\* matches; one with conditions matches a context that holds every key of
\* it with the same value, and never an absent context.
CondOk(ctx, conds) ==
    \/ DOMAIN conds = {}
    \/ \E m \in ctx : \A k \in DOMAIN conds : k \in DOMAIN m /\ m[k] = conds[k]

\* A role grant row of (res, act) on u's role closure (granted or not,
\* expired or not), and one that is eligible.
RoleGrantFor(rp, u, res, act) ==
    /\ rp.role_id \in UpClosure(HeldRoles(u))
    /\ PermIs(rp.permission_id, res, act)
EligibleRoleGrant(rp, u, res, act) ==
    /\ RoleGrantFor(rp, u, res, act)
    /\ rp.is_granted
    /\ Live(rp.expires_at)

\* A resource grant row for instance (res, rid) whose subject is u or a
\* role u holds and whose permission has action act, and an eligible one.
ResourceGrantFor(row, u, res, rid, act) ==
    /\ row.resource_type = res
    /\ row.resource_id = rid
    /\ \/ row.subject_type = "user" /\ row.subject_id = u
       \/ row.subject_type = "role" /\ row.subject_id \in HeldRoles(u)
    /\ PermHasAction(row.permission_id, act)
EligibleResourceGrant(row, u, res, rid, act) ==
    /\ ResourceGrantFor(row, u, res, rid, act)
    /\ row.is_granted
    /\ Live(row.expires_at)

\* The check has returned, and without an exception.
Returned == pc = "done"
ReturnedNormally == pc = "done" /\ failed = None

\* ------------------------------------------------------------------ claims

\* C1: default deny. check_permission returns true only if, for its
\* arguments, the store holds an eligible resource grant (resource_id
\* given; granted, not expired, subject u or a role u holds, action a) or
\* an eligible role grant (granted, not expired, on a role of u's closure,
\* permission (r, a)); a user whose role grants project.read is refused
\* project.update.
C1_DefaultDeny ==
    (Returned /\ result = "true") =>
        \/ /\ args.resource_id # None
           /\ \E row \in resource_permissions :
                EligibleResourceGrant(row, args.user_id, args.resource,
                                      args.resource_id, args.action)
        \/ \E rp \in role_permissions :
             EligibleRoleGrant(rp, args.user_id, args.resource, args.action)

\* u1 holds a role that grants project.read, asks for project.update, and
\* is refused.
C1_Witness ==
    /\ ReturnedNormally
    /\ result = "false"
    /\ args.resource = "project" /\ args.action = "update"
    /\ \E rp \in role_permissions :
         EligibleRoleGrant(rp, args.user_id, "project", "read")

\* C2: a conditioned role grant contributes only when the caller's context
\* holds every key of the grant's conditions with the same value; with an
\* absent or empty context a grant that carries conditions does not match.
\* So a check that returns normally returns true exactly when some eligible
\* role grant's conditions match the context.
C2_ConditionsGate ==
    ReturnedNormally =>
        ((result = "true") <=>
            \E rp \in role_permissions :
                /\ EligibleRoleGrant(rp, args.user_id, args.resource, args.action)
                /\ CondOk(args.conditions, rp.conditions))

\* C3: a check always returns, whatever the role graph: a check that has
\* been called reaches its return.
C3_CheckTerminates == (pc = "user_roles") ~> (pc = "done")

\* C4: fail closed. A check returns true or false and never raises; when
\* an exception was raised inside it, it returns false.
C4_FailClosed ==
    Returned => /\ result \in {"true", "false"}
                /\ failed # None => result = "false"

\* The read of the role grants fails while an eligible grant is in the
\* store: the check returns false.
C4_Witness ==
    /\ Returned
    /\ failed = "role_perms"
    /\ result = "false"
    /\ \E rp \in role_permissions :
         EligibleRoleGrant(rp, args.user_id, args.resource, args.action)

\* C5: inheritance goes upward only. A user whose only role is R is
\* granted what an unconditioned eligible grant gives to an ancestor of R
\* at any depth; a user whose role closure carries no grant of (r, a) is
\* refused, whatever the descendants of their roles are granted.
C5_InheritUpward ==
    /\ (/\ ReturnedNormally
        /\ \E R \in RoleIds :
             /\ HeldRoles(args.user_id) = {R}
             /\ \E rp \in role_permissions :
                  /\ rp.role_id \in Ancestors(R)
                  /\ PermIs(rp.permission_id, args.resource, args.action)
                  /\ rp.is_granted /\ Live(rp.expires_at)
                  /\ DOMAIN rp.conditions = {})
       => result = "true"
    /\ (/\ Returned
        /\ \A rp \in role_permissions :
             PermIs(rp.permission_id, args.resource, args.action)
                => rp.role_id \notin UpClosure(HeldRoles(args.user_id)))
       => result = "false"

\* u1 holds r1 only, r1's parent is r2 and r2's parent is r3, the only
\* grant is on r3, and the check returns true.
C5_Witness ==
    /\ ReturnedNormally
    /\ result = "true"
    /\ HeldRoles(args.user_id) = {"r1"}
    /\ Parents({"r1"}) = {"r2"} /\ Parents({"r2"}) = {"r3"}
    /\ \A rp \in role_permissions : rp.role_id = "r3"

\* C6: expiry. When every grant of the store that would answer the check
\* has an expires_at at or before now, the check returns false; an
\* unconditioned granted role grant on the closure whose expires_at is
\* still ahead makes it return true.
C6_Expiry ==
    /\ (/\ Returned
        /\ \A rp \in role_permissions :
             (RoleGrantFor(rp, args.user_id, args.resource, args.action) /\ rp.is_granted)
                => \E t \in rp.expires_at : t <= now
        /\ \A row \in resource_permissions :
             (ResourceGrantFor(row, args.user_id, args.resource, args.resource_id,
                               args.action) /\ row.is_granted)
                => \E t \in row.expires_at : t <= now)
       => result = "false"
    /\ (/\ ReturnedNormally
        /\ \E rp \in role_permissions :
             /\ RoleGrantFor(rp, args.user_id, args.resource, args.action)
             /\ rp.is_granted
             /\ DOMAIN rp.conditions = {}
             /\ \E t \in rp.expires_at : now < t)
       => result = "true"

\* The clock has reached the expires_at of the only grant that answers the
\* check, and the check returns false.
C6_Witness ==
    /\ ReturnedNormally
    /\ result = "false"
    /\ \E rp \in role_permissions :
         /\ RoleGrantFor(rp, args.user_id, args.resource, args.action)
         /\ rp.is_granted
         /\ rp.expires_at = {now}
    /\ \A rp \in role_permissions :
         (RoleGrantFor(rp, args.user_id, args.resource, args.action) /\ rp.is_granted)
            => rp.expires_at = {now}

\* C7: an eligible resource grant whose subject is the user gives the user
\* the action on that instance, whatever role assignments the user has.
C7_UserInstanceGrant ==
    (/\ ReturnedNormally
     /\ args.resource_id # None
     /\ \E row \in resource_permissions :
          /\ row.subject_type = "user"
          /\ EligibleResourceGrant(row, args.user_id, args.resource,
                                   args.resource_id, args.action))
    => result = "true"

C9_InstanceScoped ==
    (/\ Returned
     /\ \E row \in resource_permissions : \E rid \in ResourceIds :
          /\ rid # args.resource_id
          /\ EligibleResourceGrant(row, args.user_id, args.resource, rid, args.action)
     /\ \A row \in resource_permissions :
          ~EligibleResourceGrant(row, args.user_id, args.resource,
                                 args.resource_id, args.action)
     /\ \A rp \in role_permissions :
          ~EligibleRoleGrant(rp, args.user_id, args.resource, args.action))
    => result = "false"

\* u1 holds a role and an eligible grant on instance i1, asks for the same
\* action on i2, and is refused.
C9_Witness ==
    /\ ReturnedNormally
    /\ result = "false"
    /\ role_ids # <<>>
    /\ args.resource_id = "i2"
    /\ \E row \in resource_permissions :
         EligibleResourceGrant(row, args.user_id, args.resource, "i1", args.action)

\* The decision of the engine over given grant tables: a user without a
\* role is refused; otherwise a row of the resource table for the instance
\* or a row of the role table on the closure decides.
Decision(role_rows, resource_rows) ==
    /\ HeldRoles(args.user_id) # {}
    /\ \/ /\ args.resource_id # None
          /\ \E row \in resource_rows :
               /\ ResourceGrantFor(row, args.user_id, args.resource,
                                   args.resource_id, args.action)
               /\ Live(row.expires_at)
       \/ \E rp \in role_rows :
            /\ RoleGrantFor(rp, args.user_id, args.resource, args.action)
            /\ Live(rp.expires_at)

\* C10: rows with is_granted = false have no effect. The check returns
\* what the store without its denied rows decides: a denied row neither
\* grants nor takes away what a granted row gives.
C10_DeniedRowsInert ==
    ReturnedNormally =>
        ((result = "true") <=>
            Decision({ rp \in role_permissions : rp.is_granted },
                     { row \in resource_permissions : row.is_granted }))

\* A denied grant of (r, a) sits on u1's closure next to a granted one,
\* and the check returns true.
C10_Witness ==
    /\ ReturnedNormally
    /\ result = "true"
    /\ \E rp \in role_permissions :
         /\ RoleGrantFor(rp, args.user_id, args.resource, args.action)
         /\ ~rp.is_granted
    /\ \E rp \in role_permissions :
         EligibleRoleGrant(rp, args.user_id, args.resource, args.action)

\* C11: only active, unexpired assignments count. From the moment the
\* check has read the user's roles, the roles it works with are exactly
\* the ones the user holds then: a role whose assignment was revoked or
\* has expired is not among them (nor, unless another held role leads to
\* it, in the hierarchy walked), and is among them again once it has been
\* assigned anew; a check that finds a grant only on such a role returns
\* false.
C11_OnlyLiveAssignments ==
    /\ (pc \notin {"idle", "user_roles"} /\ failed # "user_roles")
          => /\ SeqRange(role_ids) = HeldRoles(args.user_id)
             /\ all_role_ids \subseteq UpClosure(HeldRoles(args.user_id))
    /\ (/\ Returned
        /\ \A rp \in role_permissions :
             PermIs(rp.permission_id, args.resource, args.action)
                => rp.role_id \notin UpClosure(HeldRoles(args.user_id))
        /\ \A row \in resource_permissions :
             ~EligibleResourceGrant(row, args.user_id, args.resource,
                                    args.resource_id, args.action))
       => result = "false"

\* u1 still holds r1; the assignment of r2 was revoked, r2 carries the only
\* grant that would answer the check, and the check returns false.
C11_Witness ==
    /\ ReturnedNormally
    /\ result = "false"
    /\ HeldRoles(args.user_id) # {}
    /\ \E ur \in user_roles :
         /\ ur.user_id = args.user_id
         /\ ~ur.is_active \/ ~Live(ur.expires_at)
         /\ ur.role_id \notin UpClosure(HeldRoles(args.user_id))
         /\ \E rp \in role_permissions :
              /\ rp.role_id = ur.role_id
              /\ PermIs(rp.permission_id, args.resource, args.action)
              /\ rp.is_granted /\ Live(rp.expires_at)

\* The step in which a check returns, and the audit entries it appends.
Returns == pc # "done" /\ pc' = "done"
AuditWriteFailed == pc = "log" /\ audit_log' = audit_log
AppendsOne(success) ==
    /\ Len(audit_log') = Len(audit_log) + 1
    /\ SubSeq(audit_log', 1, Len(audit_log)) = audit_log
    /\ audit_log'[Len(audit_log')].subject_id = args.user_id
    /\ audit_log'[Len(audit_log')].success = success

\* C12: every check appends exactly one audit entry whose success field is
\* the decision returned, on whichever branch the decision was made (the
\* early return for a user without roles, the resource grant, the role
\* grants); a check whose audit write itself fails is left aside.
C12_EveryCheckAudited ==
    [][(Returns /\ failed' = None /\ ~AuditWriteFailed)
          => AppendsOne(result' = "true")]_vars

\* C13: a failure of the audit write neither changes nor blocks the
\* decision. The step that follows the role-grant evaluation returns what
\* the role grants decide, as true or false and without an exception,
\* whether it appended the entry or not.
C13_AuditFailureHarmless ==
    [][(pc = "log" /\ pc' = "done")
          => /\ failed' = None
             /\ result' = IF \E rp \in role_permissions :
                               EligibleRoleGrant(rp, args.user_id, args.resource, args.action)
                          THEN "true" ELSE "false"]_vars

\* The role grants give true, the audit write failed (the log is still
\* empty), and the check returned true.
C13_Witness ==
    /\ ReturnedNormally
    /\ result = "true"
    /\ all_role_ids # {}
    /\ audit_log = <<>>

\* C14: a check that failed and a check that was denied leave different
\* audit trails. A failed check appends nothing, so a denied check, the
\* denial of a user without roles included, has to append an entry
\* (its audit write not failing).
C14_FailureDistinguishable ==
    [][(Returns /\ result' = "false" /\ ~AuditWriteFailed)
          => IF failed' # None
             THEN audit_log' = audit_log
             ELSE audit_log' # audit_log]_vars

\* C15: a check never changes the policy store. No step of a check, from
\* its call to its return, on any branch, changes the roles, permissions,
\* role grants, assignments or resource grants; the audit log only grows.
C15_CheckReadsOnly ==
    [][(pc # "idle" \/ pc' # "idle")
          => /\ UNCHANGED <<roles, permissions, user_roles, role_permissions,
                            resource_permissions>>
             /\ Len(audit_log') >= Len(audit_log)
             /\ SubSeq(audit_log', 1, Len(audit_log)) = audit_log]_vars

\* A check has returned after writing its audit entry, with expiring role
\* grants, assignments and resource grants in the store.
C15_Witness ==
    /\ ReturnedNormally
    /\ audit_log # <<>>
    /\ \E rp \in role_permissions : rp.expires_at # {}
    /\ user_roles # {}
    /\ resource_permissions # {}

\* ---- C16 ----
RoleGrantsOf(role_id, permission_id) ==
    { rp \in role_permissions : rp.role_id = role_id /\ rp.permission_id = permission_id }

ActiveAssignmentsOf(user_id, role_id) ==
    { ur \in user_roles : ur.user_id = user_id /\ ur.role_id = role_id /\ ur.is_active }

UniqueEdges ==
    /\ \A rp \in role_permissions :
          Cardinality(RoleGrantsOf(rp.role_id, rp.permission_id)) = 1
    /\ \A ur \in user_roles :
          ur.is_active => Cardinality(ActiveAssignmentsOf(ur.user_id, ur.role_id)) = 1

DuplicateGrantRefused ==
    \A in \in AdminGrantInputs :
       (/\ AssignPermissionToRole(in[1], in[2], in[3], in[4], in[5])
        /\ RoleGrantsOf(in[1], in[2]) # {})
       => /\ response' = Refused("assign_permission_to_role", "ValidationError")
          /\ role_permissions' = role_permissions

DuplicateAssignmentRefused ==
    \A in \in AdminAssignRoleInputs :
       (/\ AssignRoleToUser(in[1], in[2], in[3])
        /\ ActiveAssignmentsOf(in[1], in[2]) # {})
       => /\ response' = Refused("assign_role_to_user", "ValidationError")
          /\ user_roles' = user_roles

\* C16: a grant for a (role, permission) pair that already has a row, and an
\* assignment for a (user, role) pair that already has an active row, are
\* refused with a validation error and add no row; so under administrative
\* calls made one at a time there is never more than one grant per (role,
\* permission) nor more than one active assignment per (user, role).
C16_DuplicatesRejected ==
    []UniqueEdges /\ [][DuplicateGrantRefused /\ DuplicateAssignmentRefused]_vars

C16_Witness ==
    /\ response = Refused("assign_permission_to_role", "ValidationError")
    /\ GetRole("r1") # {}
    /\ Cardinality(RoleGrantsOf("r1", "c_read")) = 1
    /\ Cardinality(ActiveAssignmentsOf("u1", "r1")) = 1
    /\ \E ur \in user_roles : ur.user_id = "u1" /\ ur.role_id = "r1" /\ ~ur.is_active

\* ---- C17 ----
MissingGrantReference(role_id, permission_id) ==
    GetRole(role_id) = {} \/ ~\E p \in permissions : p.id = permission_id

MissingAssignmentReference(user_id, role_id) ==
    user_id \notin Users \/ GetRole(role_id) = {}

\* C17: a grant whose role id or permission id names no row, and an
\* assignment whose user id or role id names no row, are refused with a
\* NotFound error and leave the store unchanged.
C17_MissingIsNotFound ==
    [][/\ \A in \in AdminGrantInputs :
             (/\ AssignPermissionToRole(in[1], in[2], in[3], in[4], in[5])
              /\ MissingGrantReference(in[1], in[2]))
             => response'.error = "NotFoundError" /\ UNCHANGED store
       /\ \A in \in AdminAssignRoleInputs :
             (/\ AssignRoleToUser(in[1], in[2], in[3])
              /\ MissingAssignmentReference(in[1], in[2]))
             => response'.error = "NotFoundError" /\ UNCHANGED store]_vars

\* ---- C18 ----
SameCall(c1, c2) ==
    /\ c1 # c2
    /\ callers[c1].pc = "done" /\ callers[c2].pc = "done"
    /\ callers[c1].op = callers[c2].op
    /\ callers[c1].key = callers[c2].key

AllDeleteOutcomes == DeleteOutcomes(TRUE) \cup DeleteOutcomes(FALSE)

RoleReferenced(role_id) ==
    \/ \E ur \in user_roles : ur.role_id = role_id
    \/ \E rp \in role_permissions : rp.role_id = role_id

PermissionReferenced(permission_id) ==
    \E rp \in role_permissions : rp.permission_id = permission_id

NoDanglingEdge ==
    /\ \A rp \in role_permissions :
          /\ GetRole(rp.role_id) # {}
          /\ \E p \in permissions : p.id = rp.permission_id
    /\ \A ur \in user_roles : GetRole(ur.role_id) # {}

\* C19: delete_role on a role that a user assignment or a role grant still
\* references is refused with a validation error and keeps the role;
\* delete_permission on a permission that a role grant still references
\* fails and keeps the permission; so no grant or assignment ever points at
\* a role or permission that is gone.
C19_ReferencedDeleteRefused ==
    [][/\ \A id \in AdminDeleteRoleInputs, outcome \in AllDeleteOutcomes :
             (DeleteRole(id, outcome) /\ GetRole(id) # {} /\ RoleReferenced(id))
             => response'.error = "ValidationError" /\ roles' = roles
       /\ \A id \in AdminDeletePermissionInputs, outcome \in AllDeleteOutcomes :
             (/\ DeletePermission(id, outcome)
              /\ \E p \in permissions : p.id = id
              /\ PermissionReferenced(id))
             => response'.error # None /\ permissions' = permissions
       /\ NoDanglingEdge']_vars

\* ---- C20 ----
SystemRole(role_id) == \E role \in roles : role.id = role_id /\ role.is_system

SystemPermission(permission_id) == \E p \in permissions : p.id = permission_id /\ p.is_system

SystemRowsKept ==
    /\ \A role \in roles : role.is_system => role \in roles'
    /\ \A p \in permissions : p.is_system => p \in permissions'
    /\ \A role \in roles' : role.is_system => SystemRole(role.id)
    /\ \A p \in permissions' : p.is_system => SystemPermission(p.id)

SystemMutationRefused ==
    /\ \A in \in AdminUpdateRoleInputs :
          (UpdateRole(in[1], in[2]) /\ SystemRole(in[1]))
          => response' = Refused("update_role", "ValidationError")
    /\ \A in \in AdminUpdatePermissionInputs :
          (UpdatePermission(in[1], in[2], in[3]) /\ SystemPermission(in[1]))
          => response' = Refused("update_permission", "ValidationError")
    /\ \A id \in AdminDeleteRoleInputs, outcome \in AllDeleteOutcomes :
          (DeleteRole(id, outcome) /\ SystemRole(id))
          => response' = Refused("delete_role", "ValidationError")
    /\ \A id \in AdminDeletePermissionInputs, outcome \in AllDeleteOutcomes :
          (DeletePermission(id, outcome) /\ SystemPermission(id))
          => response' = Refused("delete_permission", "ValidationError")

\* C20: a role or permission row with is_system set stays in the store
\* exactly as it is across every administrative call, an update or delete
\* aimed at it is refused with a validation error, and no call makes a row
\* a system row.
C20_SystemRowsImmutable == [][SystemRowsKept /\ SystemMutationRefused]_vars

C20_Witness ==
    /\ response = Refused("update_permission", "ValidationError")
    /\ \E p \in permissions : p.id = "c_read" /\ p.resource = "asset"
    /\ \E p \in permissions : p.id = "p_read" /\ p.resource = "project" /\ p.is_system
    /\ GetRole("r1") = {} /\ SystemRole("r3")

\* ---- C21 ----
\* C21: a run of the seed on the state the run before it left creates no
\* permission, role or role grant row and changes no other table, so every
\* check decides after it as it did before.
C21_SeedIdempotent ==
    [][(response \in {SeedRan, SeedRanAgain} /\ InitPermissionsSystem) => UNCHANGED store]_vars

C21_Witness ==
    /\ response = SeedRanAgain
    /\ Cardinality({ p \in permissions : p.is_system }) = Len(SeedPermissions) - 1
    /\ \E p \in permissions : p.name = "project.read" /\ ~p.is_system
    /\ Cardinality({ r \in roles : r.is_system }) = Len(SeedRoles)
    /\ Cardinality(role_permissions) = Len(MappingPairs(SeedRoles))
    /\ user_roles # {}

\* ---- C22 ----
\* The names the static mapping lists for a role.
Listed(role_name) == SeqRange(role_permission_mappings(role_name))

\* The seeded permission named '<resource>.<action>', if there is one.
NamedFor(resource, action) ==
    { e.name : e \in { x \in SeqRange(system_permissions) :
                         /\ x.name \in SeedPermissionNames
                         /\ x.resource = resource /\ x.action = action } }

\* C22: after the seed has run on the empty store, a check for a user
\* whose only assignment is a system role returns true exactly when the
\* static mapping lists the permission named '<resource>.<action>' for
\* that role: super_admin is listed every seeded permission, client only
\* project.read and asset.read, and no system role has a parent.
C22_SeededPolicyIsMapping ==
    /\ Listed("super_admin") = { e.name : e \in SeqRange(system_permissions) }
    /\ Listed("client") = {"project.read", "asset.read"}
    /\ \A role \in roles : role.parent_role_id = None
    /\ \A role \in roles :
          (ReturnedNormally /\ HeldRoles(args.user_id) = {role.id})
          => (result = "true" <=>
                NamedFor(args.resource, args.action) \cap Listed(role.name) # {})

C22_Witness ==
    /\ ReturnedNormally
    /\ \E role \in roles : role.name = "client" /\ HeldRoles(args.user_id) = {role.id}
    /\ args.resource = "asset" /\ args.action = "read"
    /\ result = "true"
    /\ Cardinality(role_permissions) = 9

\* ---- C23 ----
\* The role grant rows a listing for u with this filter is to hold.
ListableRows(u, resource) ==
    { rp \in role_permissions :
        /\ rp.is_granted
        /\ Live(rp.expires_at)
        /\ rp.role_id \in UpClosure(HeldRoles(u))
        /\ resource # None =>
             \E p \in permissions : p.id = rp.permission_id /\ p.resource = resource }

\* The role grant row an entry of a listing was made from.
RowOfEntry(e) ==
    { rp \in role_permissions :
        /\ rp.role_id = e.role_id /\ rp.permission_id = e.permission_id
        /\ rp.conditions = e.conditions /\ rp.expires_at = e.expires_at }

\* C23: get_user_permissions(u, filter) returns one entry for each role
\* grant row that is granted, not expired and attached to a role of the
\* closure of u's active, not expired roles, and no other entry; with a
\* resource filter, only the rows whose permission has that resource; and
\* the empty list for a user who holds no role.
C23_ListIsEligibleGrants ==
    [][\A u \in CheckedUsers, resource \in ListFilters :
          ListUserPermissions(u, resource) =>
             /\ UNION { RowOfEntry(e) : e \in listing'.entries } = ListableRows(u, resource)
             /\ Cardinality(listing'.entries) = Cardinality(ListableRows(u, resource))
             /\ HeldRoles(u) = {} => listing'.entries = {}]_vars

\* ---- C24 ----
\* C24: an eligible resource grant whose subject is a role of the closure
\* of the user's roles (a role the user holds or an ancestor of one) and
\* whose permission has the action gives the user the action on that
\* instance.
C24_RoleInstanceGrantInherited ==
    (/\ ReturnedNormally
     /\ args.resource_id # None
     /\ \E row \in resource_permissions :
          /\ row.resource_type = args.resource
          /\ row.resource_id = args.resource_id
          /\ row.subject_type = "role"
          /\ row.subject_id \in UpClosure(HeldRoles(args.user_id))
          /\ row.is_granted
          /\ Live(row.expires_at)
          /\ PermHasAction(row.permission_id, args.action))
    => result = "true"

\* ---- C29 ----
\* C29: a check that returns true for an instance on the strength of a
\* resource grant (no role grant of the user's closure gives the action)
\* has found an eligible resource grant whose permission is the permission
\* of the instance's resource type and the action.
C29_InstanceGrantPermissionMatches ==
    (/\ ReturnedNormally
     /\ result = "true"
     /\ args.resource_id # None
     /\ ~\E rp \in role_permissions :
           EligibleRoleGrant(rp, args.user_id, args.resource, args.action))
    => \E row \in resource_permissions :
         /\ EligibleResourceGrant(row, args.user_id, args.resource,
                                  args.resource_id, args.action)
         /\ PermIs(row.permission_id, args.resource, args.action)

\* ---- C25 ----
\* C25: in every reachable state a role without a parent has level 0 and a
\* role with a parent has its parent's level + 1.
C25_LevelInvariant ==
    \A role \in roles :
       IF role.parent_role_id = None THEN role.level = 0
       ELSE \E parent \in roles :
              parent.id = role.parent_role_id /\ role.level = parent.level + 1

\* ---- C26 ----
\* What a query's loop makes of the rows in the order ord, as the caller
\* of check_permission gets to see it: a loop that raises makes the check
\* return false.
SeenOutcome(r) == IF r = "raise" THEN "false" ELSE r

\* C26: for a given store, time and arguments the decision does not depend
\* on the order in which a query returns its rows: at each of the three
\* loops over the rows of a query, every order gives the same outcome (a
\* row whose conditions do not match does not keep a later row from
\* granting).
C26_OrderIndependent ==
    /\ pc = "role_perms" =>
          \A o1, o2 \in Orderings(RolePerms(all_role_ids)) :
             SeenOutcome(ScanRolePerms(o1, args.resource, args.action, args.conditions))
               = SeenOutcome(ScanRolePerms(o2, args.resource, args.action, args.conditions))
    /\ pc = "resource_user" =>
          \A o1, o2 \in Orderings(UserResourcePerms(args.user_id, args.resource, args.resource_id)) :
             SeenOutcome(ScanResourcePerms(o1, args.action))
               = SeenOutcome(ScanResourcePerms(o2, args.action))
    /\ pc = "resource_role" =>
          \A o1, o2 \in Orderings(RoleResourcePerms(SeqRange(role_ids), args.resource, args.resource_id)) :
             SeenOutcome(ScanResourcePerms(o1, args.action))
               = SeenOutcome(ScanResourcePerms(o2, args.action))

\* ---- C27 ----
\* C27: a guard built with resource_id_path = p lets a request through
\* only if check_permission returns true for the user, the resource, the
\* action and the instance whose id the request carries in p; when the
\* check returns anything else the guard refuses.
C27_GuardFollowsCheck ==
    (pc = "guard_done" /\ request.path # None) =>
       /\ request.outcome = "passed" =>
            "true" \in Decisions(args.user_id, args.resource, args.action, request.value,
                                 args.conditions)
       /\ result # "true" => request.outcome = "denied"

\* ---- C28 ----
\* C28: in a store in which no role grant carries conditions, a check made
\* without an instance and without a context returns true if and only if
\* the listing of the user's permissions holds an entry with the checked
\* resource and action.
C28_CheckAgreesWithList ==
    (/\ pc = "done"
     /\ failed = None
     /\ args.resource_id = None
     /\ args.conditions = {}
     /\ \A rp \in role_permissions : rp.conditions = NoConditions) =>
       (result = "true" <=>
          \E e \in GetUserPermissions(args.user_id, None) :
             e.resource = args.resource /\ e.action = args.action)

\* ---- C30 ----
\* C30: a check whose reads are interleaved with one administrative write
\* returns a decision that the check gives on the store just before the
\* write or on the store just after it.
C30_DecisionOfBeforeOrAfter ==
    (pc = "done" /\ race.op # None) => result \in race.before \cup race.after

\* A parent change committed in the middle of the walk: the store before
\* it denies, the store after it grants, and the check has granted.
C30_Witness ==
    /\ pc = "done"
    /\ race.op = "update_role"
    /\ race.before = {"false"}
    /\ race.after = {"true"}
    /\ result = "true"

====
